---- MODULE Spec2Model ----
(***************************************************************************)
(* Mock card-issuing bank: the transactional payments core                 *)
(* (authorize / capture / void / refund), the idempotency middleware and   *)
(* the chaos (failure injection) middleware, over a READ COMMITTED         *)
(* relational store with row locks.                                        *)
(*                                                                         *)
(* A request is handled start to finish by one worker.  Its position is    *)
(* req[r].pc:                                                              *)
(*   new    -> not yet arrived                                             *)
(*   lock   -> transaction open, about to SELECT ... FOR UPDATE            *)
(*   write  -> principal row locked and read; validate, insert, update     *)
(*   adjust -> about to UPDATE the account row (takes the account lock)    *)
(*   commit -> about to COMMIT                                             *)
(*   store  -> response written, about to store the idempotency record     *)
(*   done   -> response delivered                                          *)
(* Steps that touch no shared state (header checks, chaos draw, input      *)
(* validation, BeginTx) are part of the Arrive step.                       *)
(***************************************************************************)
EXTENDS Integers, FiniteSets, Sequences, TLC

VARIABLES
    accounts,   \* committed accounts table: id -> balances
    ledger,     \* committed transactions table: row id -> row or NoRow
    idem,       \* committed idempotency_keys table: <<key, path>> -> record or NoRecord
    req,        \* per request: inputs, position, response, observations
    tx,         \* per request: the open database transaction (locks, pending writes)
    now,        \* wall clock, in hours
    failures,   \* infrastructure failures (database errors, cancelled contexts) still to come
    cfg         \* config.AppConfig: FailureRate, in millionths

vars == <<accounts, ledger, idem, req, tx, now, failures, cfg>>

-----------------------------------------------------------------------------
(* Bounds of the model *)

MaxReq == 3
MaxNow == 2
MaxFaults == 1
MaxAmount == 2

\* AUTH_EXPIRY_HOURS (configurable; the model counts the clock in hours)
authExpiryHours == 1
MaxLatency == 3

Requests == 1..MaxReq
Amounts == 1..MaxAmount

-----------------------------------------------------------------------------
(* Data model *)

TransactionTypeAuthHold == "AUTH_HOLD"
TransactionTypeCapture == "CAPTURE"
TransactionTypeVoid == "VOID"
TransactionTypeRefund == "REFUND"

TransactionStatusActive == "ACTIVE"
TransactionStatusCompleted == "COMPLETED"
TransactionStatusExpired == "EXPIRED"

ErrCodeInvalidCard == "invalid_card"
ErrCodeInvalidCVV == "invalid_cvv"
ErrCodeInvalidAmount == "invalid_amount"
ErrCodeCardExpired == "card_expired"
ErrCodeInsufficientFunds == "insufficient_funds"
ErrCodeAccountNotFound == "account_not_found"
ErrCodeAuthNotFound == "authorization_not_found"
ErrCodeAuthExpired == "authorization_expired"
ErrCodeAuthAlreadyUsed == "authorization_already_used"
ErrCodeAlreadyCaptured == "already_captured"
ErrCodeAlreadyVoided == "already_voided"
ErrCodeAlreadyRefunded == "already_refunded"
ErrCodeAmountMismatch == "amount_mismatch"
ErrCodeCaptureNotFound == "capture_not_found"
ErrCodeInternalError == "internal_error"

\* Seed accounts (amounts scaled down): card number -> account
AccountIds == {"A", "B", "C"}
NoAccount == "none"

SeedAccounts ==
    [a \in AccountIds |->
        CASE a = "A" ->
               [cvv |-> <<"1", "2", "3">>, expiry_month |-> 12, expiry_year |-> 2030,
                balance_cents |-> 2, available_balance_cents |-> 2]
          [] a = "B" ->
               [cvv |-> <<"4", "5", "6">>, expiry_month |-> 6, expiry_year |-> 2030,
                balance_cents |-> 1, available_balance_cents |-> 1]
          [] a = "C" ->
               [cvv |-> <<"3", "2", "1">>, expiry_month |-> 3, expiry_year |-> 2020,
                balance_cents |-> 1, available_balance_cents |-> 1]]

\* time.Now() as ValidateExpiry sees it
CurrentDate == [year |-> 2026, month |-> 6]

\* A ledger row created by request r has id r (uuid.New() is fresh per call);
\* SeedAuthId and SeedCaptureId are the ids of rows committed before the first
\* request of a specification that starts from a used ledger; UnknownId names no row.
UnknownId == 0
SeedAuthId == MaxReq + 1
SeedCaptureId == MaxReq + 2
RowIds == Requests \cup {SeedAuthId, SeedCaptureId}
NoRef == 0
NoExpiry == -1

NoRow == [type |-> "NONE"]

Transaction(acct, type, amount, ref, status, expires) ==
    [account_id |-> acct, type |-> type, amount_cents |-> amount,
     reference_id |-> ref, status |-> status, expires_at |-> expires]

NoRecord == [response_status |-> 0]

IdempotencyKey(status, body) == [response_status |-> status, response_body |-> body]

Keys == {"k1", "k2"}
NoKey == ""

idempotentPaths ==
    {"/api/v1/authorizations", "/api/v1/captures", "/api/v1/voids", "/api/v1/refunds"}

Kinds == {"authorize", "capture", "void", "refund"}

\* requests that create nothing: GET /api/v1/captures/{captureId}, which the
\* handler GetCapture serves, and two requests that no route of the mux matches
ReadKinds == {"get_capture", "get_authorizations", "post_other"}

MethodGet == "GET"
MethodPost == "POST"

\* r.Method
MethodOf(kind) ==
    IF kind \in {"get_capture", "get_authorizations"} THEN MethodGet ELSE MethodPost

\* r.URL.Path
PathOf(kind) ==
    CASE kind = "authorize" -> "/api/v1/authorizations"
      [] kind = "capture" -> "/api/v1/captures"
      [] kind = "void" -> "/api/v1/voids"
      [] kind = "refund" -> "/api/v1/refunds"
      [] kind = "get_capture" -> "/api/v1/captures/{captureId}"
      [] kind = "get_authorizations" -> "/api/v1/authorizations"
      [] kind = "post_other" -> "/api/v1/other"


-----------------------------------------------------------------------------
(* Validators *)

CardA == <<4,1,1,1, 1,1,1,1, 1,1,1,1, 1,1,1,1>>
CardB == <<4,2,4,2, 4,2,4,2, 4,2,4,2, 4,2,4,2>>

\* the seed card that expired in 03/2020
CardC == <<5,1,0,5, 1,0,5,1, 0,5,1,0, 5,1,0,0>>
\* a number that passes the Luhn check and belongs to no account
CardUnknown == <<4,0,0,0, 0,0,0,0, 0,0,0,0, 0,0,0,2>>
\* a number that fails the Luhn check
CardBadLuhn == <<4,1,1,1, 1,1,1,1, 1,1,1,1, 1,1,1,2>>

Cards == {CardA, CardB}
CVVs == {<<"1", "2", "3">>, <<"4", "5", "6">>}

\* accounts.account_number -> accounts.id
AccountOfCard(card) ==
    CASE card = CardA -> "A"
      [] card = CardB -> "B"
      [] card = CardC -> "C"
      [] OTHER -> NoAccount

RECURSIVE LuhnSum(_, _, _)
\* the loop of ValidateLuhn: i runs from len(digits) down to 1
LuhnSum(digits, i, isSecond) ==
    IF i = 0 THEN 0
    ELSE LET d == digits[i]
             doubled == IF isSecond THEN (IF d * 2 > 9 THEN d * 2 - 9 ELSE d * 2) ELSE d
         IN  doubled + LuhnSum(digits, i - 1, ~isSecond)

\* TRUE iff ValidateLuhn returns nil
ValidateLuhn(cardNumber) ==
    /\ Len(cardNumber) >= 13
    /\ Len(cardNumber) <= 19
    /\ LuhnSum(cardNumber, Len(cardNumber), FALSE) % 10 = 0

\* the characters c with '0' <= c <= '9'
DigitChars == {"0", "1", "2", "3", "4", "5", "6", "7", "8", "9"}

\* TRUE iff ValidateCVV returns nil: 3 or 4 characters, all of them digits
ValidateCVV(cvv) ==
    /\ ~(Len(cvv) < 3 \/ Len(cvv) > 4)
    /\ \A i \in 1..Len(cvv) : cvv[i] \in DigitChars

\* TRUE iff ValidateExpiry returns nil
ValidateExpiry(expiryMonth, expiryYear) ==
    /\ ~(expiryMonth < 1 \/ expiryMonth > 12)
    /\ ~(expiryYear < CurrentDate.year)
    /\ ~(expiryYear = CurrentDate.year /\ expiryMonth < CurrentDate.month)

\* TRUE iff ValidateAmount returns nil
ValidateAmount(amount) == ~(amount <= 0)

-----------------------------------------------------------------------------
(* Errors and HTTP responses *)

ServiceError(code, message) == [svc |-> TRUE, code |-> code, message |-> message]
\* an error that is not a *ServiceError (fmt.Errorf)
PlainError(message) == [svc |-> FALSE, code |-> "", message |-> message]

KnownCodes ==
    {ErrCodeInvalidCard, ErrCodeInvalidCVV, ErrCodeInvalidAmount, ErrCodeCardExpired,
     ErrCodeInsufficientFunds, ErrCodeAuthNotFound, ErrCodeAuthExpired,
     ErrCodeAuthAlreadyUsed, ErrCodeAlreadyCaptured, ErrCodeAlreadyVoided,
     ErrCodeAlreadyRefunded, ErrCodeAmountMismatch, ErrCodeCaptureNotFound}

mapServiceErrorToCode(code) == IF code \in KnownCodes THEN code ELSE ErrCodeInternalError

\* isPaymentRequiredError that knows no code
isPaymentRequiredError_Never(code) == FALSE

isPaymentRequiredError(code) == code = ErrCodeInsufficientFunds

NoResp == [status |-> 0]

ErrorResponse(status, code, message) ==
    [status |-> status, code |-> code, message |-> message,
     id |-> UnknownId, ref |-> NoRef, amount |-> 0]

StatusWord(kind) ==
    CASE kind = "authorize" -> "approved"
      [] kind = "capture" -> "captured"
      [] kind = "void" -> "voided"
      [] kind = "refund" -> "refunded"

\* OkResponse of a handler that answers 500 once the service call has returned
OkResponse_AnswersError(kind, id, row) ==
    ErrorResponse(500, ErrCodeInternalError, "internal error")

\* Create*200JSONResponse: the new row's id, its parent's id and the amount
OkResponse(kind, id, row) ==
    [status |-> 200, code |-> StatusWord(kind), message |-> "",
     id |-> id, ref |-> row.reference_id, amount |-> row.amount_cents]

\* handleAuthorizationError / handleCaptureError / handleVoidError / handleRefundError
HandleError(kind, err) ==
    IF ~err.svc
    THEN ErrorResponse(500, ErrCodeInternalError, "internal error")
    ELSE IF kind = "authorize" /\ isPaymentRequiredError(err.code)
         THEN ErrorResponse(402, mapServiceErrorToCode(err.code), err.message)
         ELSE ErrorResponse(400, mapServiceErrorToCode(err.code), err.message)

\* writeFailureResponse
ChaosResponse == ErrorResponse(500, "internal_error", "Random failure injection")

\* shouldCacheResponse that caches whatever the handler chain answered
shouldCacheResponse_Always(statusCode) == TRUE

\* shouldCacheResponse that leaves out only the server errors
shouldCacheResponse_Below500(statusCode) == statusCode >= 200 /\ statusCode < 500

shouldCacheResponse(statusCode) == statusCode >= 200 /\ statusCode < 300

-----------------------------------------------------------------------------
(* Requests and transactions *)

NewRequest ==
    [pc |-> "new", kind |-> "none", card |-> <<>>, cvv |-> <<>>, amount |-> 0,
     target |-> UnknownId, key |-> NoKey, capture |-> FALSE, resp |-> NoResp,
     replayed |-> FALSE, invoked |-> FALSE, faulted |-> FALSE, latency |-> 0]

NoTx ==
    [rowLock |-> UnknownId, acctLock |-> NoAccount, row |-> NoRow,
     account |-> NoAccount, available |-> 0,
     ins |-> NoRow, upd |-> UnknownId,
     adjAcct |-> NoAccount, balanceDelta |-> 0, availableBalanceDelta |-> 0]

\* config.AppConfig; the latency is off (0, 0) wherever the text does not say otherwise
AppConfig(failureRate, minMS, maxMS) ==
    [FailureRate |-> failureRate, MinLatencyMS |-> minMS, MaxLatencyMS |-> maxMS]

InitStore ==
    /\ accounts = [a \in AccountIds |->
                     [balance_cents |-> SeedAccounts[a].balance_cents,
                      available_balance_cents |-> SeedAccounts[a].available_balance_cents]]
    /\ ledger = [i \in RowIds |-> NoRow]
    /\ idem = [k \in Keys \X idempotentPaths |-> NoRecord]
    /\ req = [r \in Requests |-> NewRequest]
    /\ tx = [r \in Requests |-> NoTx]
    /\ now = 0

\* the response is written; the idempotency middleware stores it next if it is cacheable
Finished(rec, resp) ==
    [rec EXCEPT !.resp = resp,
                !.pc = IF rec.capture /\ shouldCacheResponse(resp.status)
                       THEN "store" ELSE "done"]

RowLockFree(r, id) == \A q \in Requests \ {r} : tx[q].rowLock # id
AcctLockFree(r, a) == \A q \in Requests \ {r} : tx[q].acctLock # a

CanFail == failures > 0

\* an infrastructure failure (database error, cancelled context) may hit this request
MayFail(rec) == CanFail /\ ~rec.faulted

\* the texts of the errors the database driver returns
ErrTexts == {"connection reset", "deadlock detected"}

\* the database errors that may hit this request at this call
DbErrors(rec) == IF MayFail(rec) THEN ErrTexts ELSE {}

\* fmt.Sprintf("<message>: %v", err) and fmt.Errorf("<message>: %w", err)
Sprintf(message, err) == message \o ": " \o err

\* &ServiceError{Code: ErrCodeInternalError, Message: fmt.Sprintf("<message>: %v", err)}
Internal(message, err) == ServiceError(ErrCodeInternalError, Sprintf(message, err))

Faulted(rec) == [rec EXCEPT !.faulted = TRUE]

-----------------------------------------------------------------------------
(* Arrival: idempotency middleware -> chaos middleware -> route handler     *)
(* -> service entry.  Each operator yields the set of request records the  *)
(* code can end this step with.                                            *)

\* validateAuthorizationRequest with the amount validated before the card and the CVV
validateAuthorizationRequest_AmountFirst(cardNumber, cvv, amount) ==
    IF ~ValidateAmount(amount) THEN ErrCodeInvalidAmount
    ELSE IF ~ValidateLuhn(cardNumber) THEN ErrCodeInvalidCard
    ELSE IF ~ValidateCVV(cvv) THEN ErrCodeInvalidCVV
    ELSE "ok"

\* AuthorizationService.validateAuthorizationRequest: the error, or "ok"
validateAuthorizationRequest(cardNumber, cvv, amount) ==
    IF ~ValidateLuhn(cardNumber) THEN ErrCodeInvalidCard
    ELSE IF ~ValidateCVV(cvv) THEN ErrCodeInvalidCVV
    ELSE IF ~ValidateAmount(amount) THEN ErrCodeInvalidAmount
    ELSE "ok"

\* db.BeginTx at the head of Authorize / Capture / Void / Refund
BeginTx(rec) ==
    {[rec EXCEPT !.pc = "lock"]}
    \cup {Finished(Faulted(rec),
                    HandleError(rec.kind, Internal("failed to start transaction", err)))
          : err \in DbErrors(rec)}

\* GetCapture404JSONResponse
CaptureNotFound == ErrorResponse(404, "not_found", "capture not found")

\* Handler.GetCapture and CaptureService.GetCapture: FindByID outside any
\* transaction, then the type check; every error is answered 404
GetCapture(rec) ==
    (IF MayFail(rec) THEN {Finished(Faulted(rec), CaptureNotFound)} ELSE {})
    \cup (IF rec.target = UnknownId \/ ledger[rec.target] = NoRow
             \/ ledger[rec.target].type # TransactionTypeCapture
          THEN {Finished(rec, CaptureNotFound)}
          ELSE {Finished(rec, OkResponse("capture", rec.target, ledger[rec.target]))})

\* http.ServeMux when no handler is registered for the method and path: 405 when
\* the path is registered for another method, 404 otherwise
NoRoute(rec) ==
    IF PathOf(rec.kind) \in idempotentPaths
    THEN ErrorResponse(405, "", "Method Not Allowed")
    ELSE ErrorResponse(404, "", "404 page not found")

\* Handler.CreateAuthorization / CreateCapture / CreateVoid / CreateRefund up to BeginTx
RouteHandler(rec0) ==
    LET rec == [rec0 EXCEPT !.invoked = TRUE]
        v == validateAuthorizationRequest(rec.card, rec.cvv, rec.amount)
    IN  IF rec.kind = "get_capture" THEN GetCapture(rec)
        ELSE IF rec.kind \in ReadKinds THEN {Finished(rec, NoRoute(rec))}
        ELSE IF rec.kind = "authorize" /\ v # "ok"
        THEN {Finished(rec, HandleError(rec.kind, ServiceError(v, "validation failed")))}
        ELSE BeginTx(rec)

\* const precision in shouldInjectFailure
precision == 1000000

\* shouldInjectFailure: the values it can return; the threshold is
\* int64(failureRate * precision) and the draw is uniform in [0, precision)
shouldInjectFailure(failureRate) ==
    IF failureRate <= 0 THEN {FALSE}
    ELSE IF failureRate >= precision THEN {TRUE}
    ELSE {TRUE, FALSE}

\* injectLatency: the durations, in milliseconds, it can sleep (0: no sleep).
\* rand.Int draws the offset uniformly in [0, rangeMS); when it fails the
\* sleep is minMS
injectLatency(minMS, maxMS) ==
    IF minMS <= 0 /\ maxMS <= 0 THEN {0}
    ELSE LET rangeMS == maxMS - minMS
         IN  IF rangeMS <= 0 THEN {minMS}
             ELSE {minMS} \cup {minMS + randomOffset : randomOffset \in 0..(rangeMS - 1)}

\* middleware.FailureInjection (none of the modelled paths is an excluded
\* path): the sleep, then the draw of the failure
FailureInjection(rec0) ==
    UNION {LET rec == [rec0 EXCEPT !.latency = sleepMS]
           IN  UNION {IF fail THEN {Finished(rec, ChaosResponse)} ELSE RouteHandler(rec)
                      : fail \in shouldInjectFailure(cfg.FailureRate)}
           : sleepMS \in injectLatency(cfg.MinLatencyMS, cfg.MaxLatencyMS)}

\* requiresIdempotency without the test of the method
requiresIdempotency_AnyMethod(rec) == PathOf(rec.kind) \in idempotentPaths

\* requiresIdempotency: POST on one of idempotentPaths
requiresIdempotency(rec) ==
    /\ ~(MethodOf(rec.kind) # MethodPost)
    /\ PathOf(rec.kind) \in idempotentPaths

\* Replay without the X-Idempotent-Replayed header
Replay_NoHeader(rec, cached) ==
    [rec EXCEPT !.resp = [cached.response_body EXCEPT !.status = cached.response_status],
                !.pc = "done"]

\* the cached response written back by the idempotency middleware
Replay(rec, cached) ==
    [rec EXCEPT !.resp = [cached.response_body EXCEPT !.status = cached.response_status],
                !.replayed = TRUE, !.pc = "done"]

\* Idempotency that captures the response for the store after a failed lookup
Idempotency_CapturesAfterReadError(rec) ==
    IF ~requiresIdempotency(rec) \/ rec.key = NoKey
    THEN FailureInjection(rec)
    ELSE LET cached == idem[<<rec.key, PathOf(rec.kind)>>]
         IN  (IF MayFail(rec)
              THEN FailureInjection([Faulted(rec) EXCEPT !.capture = TRUE])
              ELSE {})
             \cup (IF cached # NoRecord
                   THEN {Replay(rec, cached)}
                   ELSE FailureInjection([rec EXCEPT !.capture = TRUE]))

\* Idempotency that looks the record up by the key alone, whatever the path
Idempotency_KeyOnly(rec) ==
    IF ~requiresIdempotency(rec) \/ rec.key = NoKey
    THEN FailureInjection(rec)
    ELSE LET stored == {path \in idempotentPaths : idem[<<rec.key, path>>] # NoRecord}
             cached == IF stored = {} THEN NoRecord
                       ELSE idem[<<rec.key, CHOOSE path \in stored : TRUE>>]
         IN  (IF MayFail(rec) THEN FailureInjection(Faulted(rec)) ELSE {})
             \cup (IF cached # NoRecord
                   THEN {Replay(rec, cached)}
                   ELSE FailureInjection([rec EXCEPT !.capture = TRUE]))

\* Idempotency that replays a record only to a request whose body is the body
\* of an earlier request with that key and path
Idempotency_ComparesBody(rec) ==
    IF ~requiresIdempotency(rec) \/ rec.key = NoKey
    THEN FailureInjection(rec)
    ELSE LET cached == idem[<<rec.key, PathOf(rec.kind)>>]
             sameBody == \E p \in Requests :
                             /\ req[p].invoked
                             /\ req[p].key = rec.key /\ req[p].kind = rec.kind
                             /\ req[p].card = rec.card /\ req[p].cvv = rec.cvv
                             /\ req[p].amount = rec.amount /\ req[p].target = rec.target
         IN  (IF MayFail(rec) THEN FailureInjection(Faulted(rec)) ELSE {})
             \cup (IF cached # NoRecord /\ sameBody
                   THEN {Replay(rec, cached)}
                   ELSE FailureInjection([rec EXCEPT !.capture = TRUE]))

\* Idempotency placed inside FailureInjection: the failure is drawn before the lookup
Idempotency_BehindChaos(rec) ==
    IF ~requiresIdempotency(rec) \/ rec.key = NoKey
    THEN FailureInjection(rec)
    ELSE LET cached == idem[<<rec.key, PathOf(rec.kind)>>]
         IN  UNION {IF fail
                    THEN {Finished(rec, ChaosResponse)}
                    ELSE (IF MayFail(rec) THEN RouteHandler(Faulted(rec)) ELSE {})
                         \cup (IF cached # NoRecord
                               THEN {Replay(rec, cached)}
                               ELSE RouteHandler([rec EXCEPT !.capture = TRUE]))
                    : fail \in shouldInjectFailure(cfg.FailureRate)}

\* middleware.Idempotency up to the call of next.ServeHTTP
Idempotency(rec) ==
    IF ~requiresIdempotency(rec) \/ rec.key = NoKey
    THEN FailureInjection(rec)
    ELSE LET cached == idem[<<rec.key, PathOf(rec.kind)>>]
         IN  (IF MayFail(rec) THEN FailureInjection(Faulted(rec)) ELSE {})
             \cup (IF cached # NoRecord
                   THEN {Replay(rec, cached)}
                   ELSE FailureInjection([rec EXCEPT !.capture = TRUE]))

\* ids a client can name: the rows committed so far, or an id naming no row
Targets == {i \in RowIds : ledger[i] # NoRow} \cup {UnknownId}

\* request bodies, per route
AuthorizeInputs(cards, cvvs) ==
    [kind : {"authorize"}, card : cards, cvv : cvvs, amount : Amounts, target : {UnknownId}]

CaptureInputs ==
    [kind : {"capture"}, card : {<<>>}, cvv : {<<>>}, amount : Amounts, target : Targets]

VoidInputs ==
    [kind : {"void"}, card : {<<>>}, cvv : {<<>>}, amount : {0}, target : Targets]

RefundInputs ==
    [kind : {"refund"}, card : {<<>>}, cvv : {<<>>}, amount : Amounts, target : Targets]

Arrive(r, in, key) ==
    /\ req[r].pc = "new"
    /\ \A q \in Requests : q < r => req[q].pc # "new"
    /\  \E rec \in Idempotency([NewRequest EXCEPT !.kind = in.kind, !.card = in.card,
                                     !.cvv = in.cvv, !.amount = in.amount,
                                     !.target = in.target, !.key = key]) :
            /\ req' = [req EXCEPT ![r] = rec]
            /\ failures' = IF rec.faulted THEN failures - 1 ELSE failures
    /\ UNCHANGED <<accounts, ledger, idem, tx, now, cfg>>

-----------------------------------------------------------------------------
(* The database transaction of one service call *)

NoErr == [svc |-> TRUE, code |-> "ok", message |-> ""]

\* an outcome of a service step: the error returned (or NoErr), the transaction's
\* state after it, and whether an infrastructure failure caused it
Outcome(err, t, f) == [err |-> err, tx |-> t, faulted |-> f]

\* CommittedLedger of an UpdateStatus that marks a hold past its expiry EXPIRED
CommittedLedger_MarksExpired(t, id) ==
    [i \in RowIds |->
        IF i = id /\ t.ins # NoRow THEN t.ins
        ELSE IF i = t.upd /\ ledger[i] # NoRow
             THEN [ledger[i] EXCEPT !.status = IF ledger[i].expires_at < now
                                               THEN TransactionStatusExpired
                                               ELSE TransactionStatusCompleted]
             ELSE ledger[i]]

\* tx.Commit(): the transaction's insert and status update become visible
CommittedLedger(t, id) ==
    [i \in RowIds |->
        IF i = id /\ t.ins # NoRow THEN t.ins
        ELSE IF i = t.upd /\ ledger[i] # NoRow
             THEN [ledger[i] EXCEPT !.status = TransactionStatusCompleted]
             ELSE ledger[i]]

\* CommittedAccounts of an UPDATE whose WHERE clause does not select the account
CommittedAccounts_EveryAccount(t) ==
    [a \in AccountIds |->
        IF t.adjAcct # NoAccount
        THEN [balance_cents |-> accounts[a].balance_cents + t.balanceDelta,
              available_balance_cents |->
                  accounts[a].available_balance_cents + t.availableBalanceDelta]
        ELSE accounts[a]]

\* CommittedAccounts of an UPDATE that writes absolute values computed from the
\* balances read when the account was created, not from the row's current values
CommittedAccounts_AbsoluteWrite(t) ==
    [a \in AccountIds |->
        IF a = t.adjAcct
        THEN [balance_cents |-> SeedAccounts[a].balance_cents + t.balanceDelta,
              available_balance_cents |->
                  SeedAccounts[a].available_balance_cents + t.availableBalanceDelta]
        ELSE accounts[a]]

\* accountRepository.AdjustBalances, made visible by tx.Commit():
\* SET balance_cents = balance_cents + $2, available_balance_cents = ... + $3
CommittedAccounts(t) ==
    [a \in AccountIds |->
        IF a = t.adjAcct
        THEN [balance_cents |-> accounts[a].balance_cents + t.balanceDelta,
              available_balance_cents |->
                  accounts[a].available_balance_cents + t.availableBalanceDelta]
        ELSE accounts[a]]

\* RolledBackLedger of a call whose writes are not undone
RolledBackLedger_Kept(t, id) == CommittedLedger(t, id)

\* defer tx.Rollback(): nothing the transaction wrote becomes visible
RolledBackLedger(t, id) == ledger

RolledBackAccounts(t) == accounts

\* Fail of a service call without the deferred rollback: the transaction stays open
Fail_NoRollback(r, err, f) ==
    /\ req' = [req EXCEPT ![r] =
                 Finished(IF f THEN Faulted(req[r]) ELSE req[r], HandleError(req[r].kind, err))]
    /\ failures' = IF f THEN failures - 1 ELSE failures
    /\ UNCHANGED <<ledger, accounts, tx, idem, now, cfg>>

\* the service call returns err: the deferred rollback runs, the handler maps the error
Fail(r, err, f) ==
    /\ req' = [req EXCEPT ![r] =
                 Finished(IF f THEN Faulted(req[r]) ELSE req[r], HandleError(req[r].kind, err))]
    /\ ledger' = RolledBackLedger(tx[r], r)
    /\ accounts' = RolledBackAccounts(tx[r])
    /\ tx' = [tx EXCEPT ![r] = NoTx]
    /\ failures' = IF f THEN failures - 1 ELSE failures
    /\ UNCHANGED <<idem, now, cfg>>

\* the service call moves on to its next statement
Proceed(r, t, pc) ==
    /\ req' = [req EXCEPT ![r].pc = pc]
    /\ tx' = [tx EXCEPT ![r] = t]
    /\ UNCHANGED <<accounts, ledger, idem, now, failures, cfg>>

NotFoundCode(kind) ==
    IF kind = "refund" THEN ErrCodeCaptureNotFound ELSE ErrCodeAuthNotFound

\* ParentType of services that all look for an AUTH_HOLD
ParentType_AuthHold(kind) == TransactionTypeAuthHold

ParentType(kind) ==
    IF kind = "refund" THEN TransactionTypeCapture ELSE TransactionTypeAuthHold

\* accountRepo.FindByAccountNumberForUpdate: SELECT ... FOR UPDATE on the account row;
\* waits while another transaction holds the row
FindByAccountNumberForUpdate(r, rec) ==
    LET a == AccountOfCard(rec.card)
    IN  (IF MayFail(rec)
         THEN {Outcome(ServiceError(ErrCodeInvalidCard, "card not found or invalid"), NoTx, TRUE)}
         ELSE {})
        \cup (IF a = NoAccount
              THEN {Outcome(ServiceError(ErrCodeInvalidCard, "card not found or invalid"),
                            NoTx, FALSE)}
              ELSE IF AcctLockFree(r, a)
                   THEN {Outcome(NoErr,
                                 [NoTx EXCEPT !.acctLock = a, !.account = a,
                                     !.available = accounts[a].available_balance_cents],
                                 FALSE)}
                   ELSE {})

\* transactionRepo.FindByIDForUpdate followed by the type check of
\* performCapture / performVoid / performRefund
FindByIDForUpdate(r, rec) ==
    LET notFound == ServiceError(NotFoundCode(rec.kind), "not found")
    IN  (IF MayFail(rec) THEN {Outcome(notFound, NoTx, TRUE)} ELSE {})
        \cup (IF rec.target = UnknownId \/ ledger[rec.target] = NoRow
              THEN {Outcome(notFound, NoTx, FALSE)}
              ELSE IF RowLockFree(r, rec.target)
                   THEN IF ledger[rec.target].type # ParentType(rec.kind)
                        THEN {Outcome(notFound, NoTx, FALSE)}
                        ELSE {Outcome(NoErr,
                                      [NoTx EXCEPT !.rowLock = rec.target,
                                                   !.row = ledger[rec.target]],
                                      FALSE)}
                   ELSE {})

LockStep(r) ==
    /\ req[r].pc = "lock"
    /\ \E o \in (IF req[r].kind = "authorize"
                 THEN FindByAccountNumberForUpdate(r, req[r])
                 ELSE FindByIDForUpdate(r, req[r])) :
         IF o.err = NoErr THEN Proceed(r, o.tx, "write") ELSE Fail(r, o.err, o.faulted)

\* transactionRepo.FindByID followed by the type check of performCapture: the
\* plain SELECT of the row, which takes no lock and waits for none
FindByID(r, rec) ==
    LET notFound == ServiceError(NotFoundCode(rec.kind), "not found")
    IN  (IF MayFail(rec) THEN {Outcome(notFound, NoTx, TRUE)} ELSE {})
        \cup (IF rec.target = UnknownId \/ ledger[rec.target] = NoRow
                 \/ ledger[rec.target].type # ParentType(rec.kind)
              THEN {Outcome(notFound, NoTx, FALSE)}
              ELSE {Outcome(NoErr, [NoTx EXCEPT !.row = ledger[rec.target]], FALSE)})

\* LockStep of the variant in which Capture reads the AUTH_HOLD row with FindByID
LockStepPlainRead(r) ==
    /\ req[r].pc = "lock"
    /\ \E o \in (CASE req[r].kind = "authorize" -> FindByAccountNumberForUpdate(r, req[r])
                   [] req[r].kind = "capture" -> FindByID(r, req[r])
                   [] OTHER -> FindByIDForUpdate(r, req[r])) :
         IF o.err = NoErr THEN Proceed(r, o.tx, "write") ELSE Fail(r, o.err, o.faulted)

-----------------------------------------------------------------------------
(* Ledger store *)

UniqueTypes == {TransactionTypeCapture, TransactionTypeVoid, TransactionTypeRefund}

\* UniqueIndexConflict of an index whose WHERE clause names only CAPTURE
UniqueIndexConflict_CaptureOnly(row, other) ==
    /\ other # NoRow
    /\ row.type = TransactionTypeCapture
    /\ row.reference_id # NoRef
    /\ other.type = row.type
    /\ other.reference_id = row.reference_id

\* UniqueIndexConflict of an index whose WHERE clause leaves CAPTURE out
UniqueIndexConflict_NoCapture(row, other) ==
    /\ other # NoRow
    /\ row.type \in {TransactionTypeVoid, TransactionTypeRefund}
    /\ row.reference_id # NoRef
    /\ other.type = row.type
    /\ other.reference_id = row.reference_id

\* UniqueIndexConflict of a schema without the partial unique index
UniqueIndexConflict_NoIndex(row, other) == FALSE

\* idx_transactions_reference_type_unique: (reference_id, type)
\* WHERE type IN ('CAPTURE','VOID','REFUND') AND reference_id IS NOT NULL
UniqueIndexConflict(row, other) ==
    /\ other # NoRow
    /\ row.type \in UniqueTypes
    /\ row.reference_id # NoRef
    /\ other.type = row.type
    /\ other.reference_id = row.reference_id

\* transactionRepo.Create: "ok", "duplicate" (ErrDuplicateTransaction) or "error";
\* an insert that conflicts with another transaction's uncommitted insert waits
Create(r, rec, row) ==
    (IF MayFail(rec) THEN {"error"} ELSE {})
    \cup (IF \E i \in RowIds : UniqueIndexConflict(row, ledger[i])
          THEN {"duplicate"}
          ELSE IF \E q \in Requests \ {r} : UniqueIndexConflict(row, tx[q].ins)
               THEN {}
               ELSE {"ok"})

\* transactionRepo.FindByReferenceID: the committed child of that type, or NoRow
FindByReferenceID(ref, type) ==
    IF \E i \in RowIds : ledger[i] # NoRow /\ ledger[i].type = type
                         /\ ledger[i].reference_id = ref
    THEN ledger[CHOOSE i \in RowIds : ledger[i] # NoRow /\ ledger[i].type = type
                                       /\ ledger[i].reference_id = ref]
    ELSE NoRow

\* transactionRepo.UpdateStatus(authorizationID, COMPLETED) and its error branch;
\* the UPDATE takes the row's lock, waiting while another transaction holds it
UpdateStatus(r, rec, t, row) ==
    (IF RowLockFree(r, rec.target)
     THEN {Outcome(NoErr, [t EXCEPT !.ins = row, !.upd = rec.target,
                                    !.rowLock = rec.target], FALSE)}
     ELSE {})
    \cup {Outcome(Internal("failed to update authorization", err), t, TRUE)
          : err \in DbErrors(rec)}

-----------------------------------------------------------------------------
(* Payment services, after the principal row is locked *)

\* CaptureStatusUsed with the status check left out
CaptureStatusUsed_Unchecked(authTxn) == FALSE

\* performCapture: authTxn.Status != models.TransactionStatusActive
CaptureStatusUsed(authTxn) == authTxn.status # TransactionStatusActive

\* VoidStatusUsed of a void that also turns away authorizations past their expiry
VoidStatusUsed_OrExpired(authTxn) ==
    \/ authTxn.status # TransactionStatusActive
    \/ authTxn.expires_at # NoExpiry /\ now > authTxn.expires_at

\* VoidStatusUsed with the status check left out
VoidStatusUsed_Unchecked(authTxn) == FALSE

\* performVoid: authTxn.Status != models.TransactionStatusActive
VoidStatusUsed(authTxn) == authTxn.status # TransactionStatusActive

\* AuthExpired of a capture that never looks at the clock
AuthExpired_Never(authTxn) == FALSE

\* performCapture: authTxn.ExpiresAt != nil && time.Now().After(*authTxn.ExpiresAt)
AuthExpired(authTxn) == authTxn.expires_at # NoExpiry /\ now > authTxn.expires_at

\* AmountMismatch of a capture that accepts any amount up to the authorized one
AmountMismatch_Partial(amount, authTxn) == amount > authTxn.amount_cents

\* performCapture: amount != authTxn.AmountCents
AmountMismatch(amount, authTxn) == amount # authTxn.amount_cents

\* CaptureService.performCapture from the status check to UpdateStatus
performCapture(r, rec, t) ==
    LET authTxn == t.row
        captureTxn == Transaction(authTxn.account_id, TransactionTypeCapture, rec.amount,
                                  rec.target, TransactionStatusCompleted, NoExpiry)
    IN  IF CaptureStatusUsed(authTxn)
        THEN {Outcome(ServiceError(ErrCodeAuthAlreadyUsed, "authorization has already been completed or cancelled"), t, FALSE)}
        ELSE IF AuthExpired(authTxn)
        THEN {Outcome(ServiceError(ErrCodeAuthExpired, "authorization has expired"), t, FALSE)}
        ELSE IF AmountMismatch(rec.amount, authTxn)
        THEN {Outcome(ServiceError(ErrCodeAmountMismatch, "capture amount does not match authorized amount"), t, FALSE)}
        ELSE UNION {
            CASE c = "error" -> {Outcome(PlainError(Sprintf("failed to create capture", err)),
                                            t, TRUE) : err \in ErrTexts}
              [] c = "duplicate" ->
                   {Outcome(ServiceError(ErrCodeAlreadyCaptured, "authorization has already been captured"), t, FALSE)}
              [] c = "ok" -> UpdateStatus(r, rec, t, captureTxn)
            : c \in Create(r, rec, captureTxn)}

\* VoidService.performVoid from the status check to UpdateStatus
performVoid(r, rec, t) ==
    LET authTxn == t.row
        voidTxn == Transaction(authTxn.account_id, TransactionTypeVoid, authTxn.amount_cents,
                               rec.target, TransactionStatusCompleted, NoExpiry)
    IN  IF VoidStatusUsed(authTxn)
        THEN {Outcome(ServiceError(ErrCodeAuthAlreadyUsed, "authorization has already been completed or cancelled"), t, FALSE)}
        ELSE {Outcome(Internal("failed to check existing capture", err), t, TRUE)
              : err \in DbErrors(rec)}
             \cup
             (IF FindByReferenceID(rec.target, TransactionTypeCapture) # NoRow
              THEN {Outcome(ServiceError(ErrCodeAlreadyCaptured, "cannot void an authorization that has been captured"), t, FALSE)}
              ELSE UNION {
                  CASE c = "error" -> {Outcome(PlainError(Sprintf("failed to create void", err)),
                                                  t, TRUE) : err \in ErrTexts}
                    [] c = "duplicate" ->
                         {Outcome(ServiceError(ErrCodeAlreadyVoided, "authorization has already been voided"), t, FALSE)}
                    [] c = "ok" -> UpdateStatus(r, rec, t, voidTxn)
                  : c \in Create(r, rec, voidTxn)})

\* RefundAmountMismatch of a refund that rejects only amounts below the captured one
RefundAmountMismatch_PartialOnly(amount, captureTxn) == amount < captureTxn.amount_cents

\* performRefund: amount != captureTxn.AmountCents
RefundAmountMismatch(amount, captureTxn) == amount # captureTxn.amount_cents

\* RefundService.performRefund from the status check to Create
performRefund(r, rec, t) ==
    LET captureTxn == t.row
        refundTxn == Transaction(captureTxn.account_id, TransactionTypeRefund, rec.amount,
                                 rec.target, TransactionStatusCompleted, NoExpiry)
    IN  IF captureTxn.status # TransactionStatusCompleted
        THEN {Outcome(ServiceError(ErrCodeCaptureNotFound, "capture is not in completed status"), t, FALSE)}
        ELSE IF RefundAmountMismatch(rec.amount, captureTxn)
        THEN {Outcome(ServiceError(ErrCodeAmountMismatch, "refund amount must equal capture amount"), t, FALSE)}
        ELSE UNION {
            CASE c = "error" -> {Outcome(PlainError(Sprintf("failed to create refund", err)),
                                            t, TRUE) : err \in ErrTexts}
              [] c = "duplicate" ->
                   {Outcome(ServiceError(ErrCodeAlreadyRefunded, "capture has already been refunded"), t, FALSE)}
              [] c = "ok" -> {Outcome(NoErr, [t EXCEPT !.ins = refundTxn], FALSE)}
            : c \in Create(r, rec, refundTxn)}

\* InsufficientFunds with the balance check left out
InsufficientFunds_Unchecked(available, amount) == FALSE

\* the balance check of performAuthorization
InsufficientFunds(available, amount) == available < amount

\* AuthorizationService.performAuthorization from the CVV check to AdjustBalances
\* (the account row is already locked by this transaction)
performAuthorization(r, rec, t) ==
    LET account == SeedAccounts[t.account]
        authTx == Transaction(t.account, TransactionTypeAuthHold, rec.amount, NoRef,
                              TransactionStatusActive, now + authExpiryHours)
    IN  IF account.cvv # rec.cvv
        THEN {Outcome(ServiceError(ErrCodeInvalidCVV, "CVV does not match"), t, FALSE)}
        ELSE IF ~ValidateExpiry(account.expiry_month, account.expiry_year)
        THEN {Outcome(ServiceError(ErrCodeCardExpired, "card expired"), t, FALSE)}
        ELSE IF InsufficientFunds(t.available, rec.amount)
        THEN {Outcome(ServiceError(ErrCodeInsufficientFunds, "insufficient funds"), t, FALSE)}
        ELSE UNION {
            CASE c = "ok" ->
                   {Outcome(NoErr,
                            [t EXCEPT !.ins = authTx, !.adjAcct = t.account,
                                      !.balanceDelta = 0, !.availableBalanceDelta = -rec.amount],
                            FALSE)}
                   \cup {Outcome(Internal("failed to adjust balance", err), t, TRUE)
                         : err \in DbErrors(rec)}
              [] OTHER -> {Outcome(Internal("failed to create authorization", err), t, TRUE)
                           : err \in ErrTexts}
            : c \in Create(r, rec, authTx)}

WriteStep(r) ==
    /\ req[r].pc = "write"
    /\ \E o \in (CASE req[r].kind = "authorize" -> performAuthorization(r, req[r], tx[r])
                   [] req[r].kind = "capture" -> performCapture(r, req[r], tx[r])
                   [] req[r].kind = "void" -> performVoid(r, req[r], tx[r])
                   [] req[r].kind = "refund" -> performRefund(r, req[r], tx[r])) :
         IF o.err = NoErr
         THEN Proceed(r, o.tx, IF req[r].kind = "authorize" THEN "commit" ELSE "adjust")
         ELSE Fail(r, o.err, o.faulted)

\* BalanceDelta of a void that credits the posted balance with the hold
BalanceDelta_VoidCredits(kind, t) ==
    CASE kind = "capture" -> -t.ins.amount_cents
      [] kind = "void" -> t.row.amount_cents
      [] kind = "refund" -> t.ins.amount_cents

\* BalanceDelta of a capture that leaves the posted balance alone
BalanceDelta_CaptureKeepsPosted(kind, t) ==
    CASE kind = "capture" -> 0
      [] kind = "void" -> 0
      [] kind = "refund" -> t.ins.amount_cents

\* BalanceDelta of a refund that credits only the available balance
BalanceDelta_RefundAvailableOnly(kind, t) ==
    CASE kind = "capture" -> -t.ins.amount_cents
      [] kind = "void" -> 0
      [] kind = "refund" -> 0

\* BalanceDelta with the sign of the capture's posted delta lost
BalanceDelta_CaptureAdds(kind, t) ==
    CASE kind = "capture" -> t.ins.amount_cents
      [] kind = "void" -> 0
      [] kind = "refund" -> t.ins.amount_cents

\* the deltas of the AdjustBalances call of performCapture / performVoid / performRefund
BalanceDelta(kind, t) ==
    CASE kind = "capture" -> -t.ins.amount_cents
      [] kind = "void" -> 0
      [] kind = "refund" -> t.ins.amount_cents

\* AvailableBalanceDelta of a refund that credits only the posted balance
AvailableBalanceDelta_RefundPostedOnly(kind, t) ==
    CASE kind = "capture" -> 0
      [] kind = "void" -> t.row.amount_cents
      [] kind = "refund" -> 0

\* AvailableBalanceDelta with a void that does not release the hold
AvailableBalanceDelta_VoidKeepsHold(kind, t) ==
    CASE kind = "capture" -> 0
      [] kind = "void" -> 0
      [] kind = "refund" -> t.ins.amount_cents

AvailableBalanceDelta(kind, t) ==
    CASE kind = "capture" -> 0
      [] kind = "void" -> t.row.amount_cents
      [] kind = "refund" -> t.ins.amount_cents

\* accountRepo.AdjustBalances in performCapture / performVoid / performRefund: the
\* UPDATE takes the account row's lock, waiting while another transaction holds it
AdjustStep(r) ==
    /\ req[r].pc = "adjust"
    /\ \/ \E err \in DbErrors(req[r]) :
              Fail(r, Internal("failed to adjust balance", err), TRUE)
       \/ /\ AcctLockFree(r, tx[r].row.account_id)
          /\ Proceed(r, [tx[r] EXCEPT !.acctLock = tx[r].row.account_id,
                                      !.adjAcct = tx[r].row.account_id,
                                      !.balanceDelta = BalanceDelta(req[r].kind, tx[r]),
                                      !.availableBalanceDelta =
                                          AvailableBalanceDelta(req[r].kind, tx[r])],
                     "commit")

\* tx.Commit() and the 200 response of the handler
CommitStep(r) ==
    /\ req[r].pc = "commit"
    /\ \/ \E err \in DbErrors(req[r]) :
              Fail(r, Internal("failed to commit transaction", err), TRUE)
       \/ /\ ledger' = CommittedLedger(tx[r], r)
          /\ accounts' = CommittedAccounts(tx[r])
          /\ req' = [req EXCEPT ![r] = Finished(req[r], OkResponse(req[r].kind, r, tx[r].ins))]
          /\ tx' = [tx EXCEPT ![r] = NoTx]
          /\ UNCHANGED <<idem, now, failures, cfg>>

\* Store as an upsert: the last write wins
Store_LastWriteWins(key, path, record) == [idem EXCEPT ![<<key, path>>] = record]

\* idempotencyRepo.Store: INSERT ... ON CONFLICT DO NOTHING (the first write wins)
Store(key, path, record) ==
    [idem EXCEPT ![<<key, path>>] = IF @ = NoRecord THEN record ELSE @]

\* StoreStep of a middleware that answers 500 when the record cannot be stored
StoreStep_FailsRequest(r) ==
    /\ req[r].pc = "store"
    /\ \/ /\ MayFail(req[r])
          /\ req' = [req EXCEPT ![r] = [Faulted(req[r]) EXCEPT
                                          !.pc = "done",
                                          !.resp = ErrorResponse(500, ErrCodeInternalError,
                                                                 "internal error")]]
          /\ failures' = failures - 1
          /\ UNCHANGED idem
       \/ /\ idem' = Store(req[r].key, PathOf(req[r].kind),
                           IdempotencyKey(req[r].resp.status, req[r].resp))
          /\ req' = [req EXCEPT ![r].pc = "done"]
          /\ UNCHANGED failures
    /\ UNCHANGED <<accounts, ledger, tx, now, cfg>>

\* the tail of middleware.Idempotency: store the captured response; a storage
\* failure is logged and the response is unaffected
StoreStep(r) ==
    /\ req[r].pc = "store"
    /\ \/ /\ MayFail(req[r])
          /\ req' = [req EXCEPT ![r] = [Faulted(req[r]) EXCEPT !.pc = "done"]]
          /\ failures' = failures - 1
          /\ UNCHANGED idem
       \/ /\ idem' = Store(req[r].key, PathOf(req[r].kind),
                           IdempotencyKey(req[r].resp.status, req[r].resp))
          /\ req' = [req EXCEPT ![r].pc = "done"]
          /\ UNCHANGED failures
    /\ UNCHANGED <<accounts, ledger, tx, now, cfg>>

\* time passes
Tick ==
    /\ now < MaxNow
    /\ now' = now + 1
    /\ UNCHANGED <<accounts, ledger, idem, req, tx, failures, cfg>>

\* the steps of the service calls in flight, and the clock
ServiceSteps ==
    \/ \E r \in Requests : LockStep(r)
    \/ \E r \in Requests : WriteStep(r)
    \/ \E r \in Requests : AdjustStep(r)
    \/ \E r \in Requests : CommitStep(r)
    \/ Tick

-----------------------------------------------------------------------------
(* Spec: the payment services under concurrent requests, database failures  *)
(* and the passing of time; chaos is switched off (FAILURE_RATE = 0) and    *)
(* clients send no Idempotency-Key.                                        *)

Init ==
    /\ InitStore
    /\ failures = MaxFaults
    /\ cfg = AppConfig(0, 0, 0)

\* the clients of this specification present the CVV of the card
ServiceInputs ==
    {in \in AuthorizeInputs(Cards, CVVs) : in.cvv = SeedAccounts[AccountOfCard(in.card)].cvv}
    \cup CaptureInputs \cup VoidInputs \cup RefundInputs

Next ==
    \/ \E r \in Requests, in \in ServiceInputs : Arrive(r, in, NoKey)
    \/ ServiceSteps

Spec == Init /\ [][Next]_vars

-----------------------------------------------------------------------------
(* SpecSettled: the services on a ledger that already holds a captured      *)
(* authorization of account A (an AUTH_HOLD, COMPLETED, and its CAPTURE),   *)
(* as an earlier Authorize and Capture of 1 leave it.                       *)

InitSettled ==
    /\ accounts = [a \in AccountIds |->
                     IF a = "A"
                     THEN [balance_cents |-> SeedAccounts[a].balance_cents - 1,
                           available_balance_cents |->
                               SeedAccounts[a].available_balance_cents - 1]
                     ELSE [balance_cents |-> SeedAccounts[a].balance_cents,
                           available_balance_cents |->
                               SeedAccounts[a].available_balance_cents]]
    /\ ledger = [i \in RowIds |->
                   CASE i = SeedAuthId ->
                          Transaction("A", TransactionTypeAuthHold, 1, NoRef,
                                      TransactionStatusCompleted, authExpiryHours)
                     [] i = SeedCaptureId ->
                          Transaction("A", TransactionTypeCapture, 1, SeedAuthId,
                                      TransactionStatusCompleted, NoExpiry)
                     [] OTHER -> NoRow]
    /\ idem = [k \in Keys \X idempotentPaths |-> NoRecord]
    /\ req = [r \in Requests |-> NewRequest]
    /\ tx = [r \in Requests |-> NoTx]
    /\ now = 0
    /\ failures = MaxFaults
    /\ cfg = AppConfig(0, 0, 0)

\* no new authorizations: the requests are about the rows already there
SettledInputs == CaptureInputs \cup VoidInputs \cup RefundInputs

NextSettled ==
    \/ \E r \in Requests, in \in SettledInputs : Arrive(r, in, NoKey)
    \/ \E r \in Requests : LockStep(r)
    \/ \E r \in Requests : WriteStep(r)
    \/ \E r \in Requests : AdjustStep(r)
    \/ \E r \in Requests : CommitStep(r)

SpecSettled == InitSettled /\ [][NextSettled]_vars

-----------------------------------------------------------------------------
(* SpecHttp: the same services behind the two middlewares.  Clients send    *)
(* an Idempotency-Key and retry with it; chaos runs at the default          *)
(* FAILURE_RATE of 0.05; the requests are served within the hour.           *)

InitHttp ==
    /\ InitStore
    /\ failures = MaxFaults
    /\ cfg = AppConfig(50000, 0, 0)

\* one card, one amount: what varies is the key and the timing
HttpInputs ==
    {in \in AuthorizeInputs({CardA}, CVVs) \cup CaptureInputs \cup VoidInputs \cup RefundInputs :
        /\ in.amount <= 1
        /\ in.kind = "authorize" => in.cvv = SeedAccounts[AccountOfCard(in.card)].cvv}

NextHttp ==
    \/ \E r \in Requests, in \in HttpInputs, key \in Keys : Arrive(r, in, key)
    \/ \E r \in Requests : LockStep(r)
    \/ \E r \in Requests : WriteStep(r)
    \/ \E r \in Requests : AdjustStep(r)
    \/ \E r \in Requests : CommitStep(r)
    \/ \E r \in Requests : StoreStep(r)

SpecHttp == InitHttp /\ [][NextHttp]_vars

-----------------------------------------------------------------------------
(* SpecPlainRead: the variant of the services in which Capture reads the    *)
(* AUTH_HOLD row without FOR UPDATE, so that only the partial unique index  *)
(* stands between two concurrent captures of one authorization.             *)

\* authorizations on one card and captures of them
PlainReadInputs ==
    {in \in AuthorizeInputs({CardA}, CVVs) :
        in.cvv = SeedAccounts[AccountOfCard(in.card)].cvv}
    \cup CaptureInputs

NextPlainRead ==
    \/ \E r \in Requests, in \in PlainReadInputs : Arrive(r, in, NoKey)
    \/ \E r \in Requests : LockStepPlainRead(r)
    \/ \E r \in Requests : WriteStep(r)
    \/ \E r \in Requests : AdjustStep(r)
    \/ \E r \in Requests : CommitStep(r)

SpecPlainRead == Init /\ [][NextPlainRead]_vars

-----------------------------------------------------------------------------
(* SpecAuthorize: Authorize alone, on every kind of request body a client   *)
(* can send: cards that fail the Luhn check, belong to no account or have   *)
(* expired, CVVs that are malformed or wrong, amounts that are zero or      *)
(* above the available balance.                                            *)

AuthorizeCards == {CardA, CardC, CardUnknown, CardBadLuhn}

\* the CVV of card A, the CVV of card C, and one with two characters
AuthorizeCVVs == {<<"1", "2", "3">>, <<"3", "2", "1">>, <<"1", "2">>}

\* no amount, an amount within the balance of every card, one above every balance
AuthorizeAmounts == {0, 1, MaxAmount + 1}

AnyAuthorizeInputs ==
    [kind : {"authorize"}, card : AuthorizeCards, cvv : AuthorizeCVVs,
     amount : AuthorizeAmounts, target : {UnknownId}]

NextAuthorize ==
    \/ \E r \in Requests, in \in AnyAuthorizeInputs : Arrive(r, in, NoKey)
    \/ \E r \in Requests : LockStep(r)
    \/ \E r \in Requests : WriteStep(r)
    \/ \E r \in Requests : CommitStep(r)

SpecAuthorize == Init /\ [][NextAuthorize]_vars

-----------------------------------------------------------------------------
(* SpecBypass: the middlewares in front of requests the idempotency         *)
(* middleware lets through: GET requests, POSTs to other paths, and POSTs   *)
(* without an Idempotency-Key, beside keyed authorizations and captures     *)
(* that fill the store.                                                    *)

ReadInputs ==
    [kind : {"get_capture"}, card : {<<>>}, cvv : {<<>>}, amount : {0}, target : Targets]
    \cup [kind : {"get_authorizations", "post_other"}, card : {<<>>}, cvv : {<<>>},
          amount : {0}, target : {UnknownId}]

BypassInputs ==
    {in \in AuthorizeInputs({CardA}, {SeedAccounts["A"].cvv}) \cup CaptureInputs :
        in.amount <= 1}
    \cup ReadInputs

\* one key, or no Idempotency-Key header
BypassKeys == {"k1", NoKey}

NextBypass ==
    \/ \E r \in Requests, in \in BypassInputs, key \in BypassKeys : Arrive(r, in, key)
    \/ \E r \in Requests : LockStep(r)
    \/ \E r \in Requests : WriteStep(r)
    \/ \E r \in Requests : AdjustStep(r)
    \/ \E r \in Requests : CommitStep(r)
    \/ \E r \in Requests : StoreStep(r)

SpecBypass == InitHttp /\ [][NextBypass]_vars

-----------------------------------------------------------------------------
(* SpecChaos: SpecHttp under every FAILURE_RATE.  The rate is read from the *)
(* environment when the server starts; the idempotency records are in the   *)
(* database and outlive a restart with another rate.                        *)

\* FAILURE_RATE 0, the default 0.05 and 1, as thresholds of shouldInjectFailure
ChaosRates == {0, 50000, precision}

InitChaos ==
    /\ InitStore
    /\ failures = MaxFaults
    /\ cfg \in {AppConfig(rate, 0, 0) : rate \in ChaosRates}

\* the server is restarted, between requests, with another FAILURE_RATE
Restart(rate) ==
    /\ \A r \in Requests : req[r].pc \in {"new", "done"}
    /\ rate # cfg.FailureRate
    /\ cfg' = [cfg EXCEPT !.FailureRate = rate]
    /\ UNCHANGED <<accounts, ledger, idem, req, tx, now, failures>>

\* one client key: the retries are what matters
ChaosKeys == {"k1"}

NextChaos ==
    \/ \E r \in Requests, in \in HttpInputs, key \in ChaosKeys : Arrive(r, in, key)
    \/ \E r \in Requests : LockStep(r)
    \/ \E r \in Requests : WriteStep(r)
    \/ \E r \in Requests : AdjustStep(r)
    \/ \E r \in Requests : CommitStep(r)
    \/ \E r \in Requests : StoreStep(r)
    \/ \E rate \in ChaosRates : Restart(rate)

SpecChaos == InitChaos /\ [][NextChaos]_vars

-----------------------------------------------------------------------------
(* SpecLatency: the latency injection under every pair of bounds that       *)
(* Config.Validate accepts, up to MaxLatency milliseconds.                  *)

LatencyBounds ==
    {b \in (0..MaxLatency) \X (0..MaxLatency) : ~(b[1] < 0) /\ ~(b[2] < b[1])}

InitLatency ==
    /\ InitStore
    /\ failures = 0
    /\ cfg \in {AppConfig(50000, b[1], b[2]) : b \in LatencyBounds}

NextLatency ==
    \E r \in Requests, in \in ReadInputs : Arrive(r, in, NoKey)

SpecLatency == InitLatency /\ [][NextLatency]_vars

-----------------------------------------------------------------------------
(* SpecFair: the services under fair scheduling.  Each request is served by *)
(* a goroutine of its own and the database hands a released lock to a       *)
(* waiting transaction, so a service call whose next statement can run      *)
(* does run; no database call fails, so that no transaction is rescued from *)
(* a wait by an error.                                                     *)

InitFair ==
    /\ InitStore
    /\ failures = 0
    /\ cfg = AppConfig(0, 0, 0)

\* the next statement of the service call of request r
StepOf(r) == LockStep(r) \/ WriteStep(r) \/ AdjustStep(r) \/ CommitStep(r)

NextFair ==
    \/ \E r \in Requests, in \in ServiceInputs : Arrive(r, in, NoKey)
    \/ \E r \in Requests : LockStep(r)
    \/ \E r \in Requests : WriteStep(r)
    \/ \E r \in Requests : AdjustStep(r)
    \/ \E r \in Requests : CommitStep(r)

SpecFair == InitFair /\ [][NextFair]_vars /\ \A r \in Requests : WF_vars(StepOf(r))

-----------------------------------------------------------------------------
(* Properties of the payment services (Spec)                                *)

RECURSIVE Sum(_, _)
\* the sum of f over the finite set S
Sum(f, S) ==
    IF S = {} THEN 0
    ELSE LET x == CHOOSE y \in S : TRUE IN f[x] + Sum(f, S \ {x})

Rows == {i \in RowIds : ledger[i] # NoRow}

RowsOf(a) == {i \in Rows : ledger[i].account_id = a}

Children(h, type) == {i \in Rows : ledger[i].type = type /\ ledger[i].reference_id = h}

\* a request whose response is written
Answered(r) == req[r].resp # NoResp

\* the capture requests on authorization h with the authorized amount
MatchingCaptures(h) ==
    {r \in Requests : /\ req[r].kind = "capture"
                      /\ req[r].target = h
                      /\ req[r].amount = ledger[h].amount_cents}

\* N > 1 matching captures of the unexpired authorization h have all been answered,
\* none was hit by an infrastructure failure, and nothing else has been requested
CapturesRaced(h) ==
    /\ ledger[h] # NoRow
    /\ ledger[h].type = TransactionTypeAuthHold
    /\ now <= ledger[h].expires_at
    /\ Cardinality(MatchingCaptures(h)) > 1
    /\ \A r \in MatchingCaptures(h) : Answered(r) /\ req[r].pc = "done" /\ ~req[r].faulted
    /\ \A r \in Requests \ (MatchingCaptures(h) \cup {h}) : req[r].pc = "new"

\* C1: when N > 1 captures of the same unexpired authorization, each with the
\* authorized amount, run concurrently, exactly one returns 200, every other
\* returns 400 with code already_captured or authorization_already_used, and the
\* account's posted balance is lower by exactly one authorized amount.
C1_OneCaptureWins ==
    \A h \in Requests :
        CapturesRaced(h) =>
            /\ Cardinality({r \in MatchingCaptures(h) : req[r].resp.status = 200}) = 1
            /\ \A r \in MatchingCaptures(h) :
                   req[r].resp.status # 200 =>
                       /\ req[r].resp.status = 400
                       /\ req[r].resp.code \in {ErrCodeAlreadyCaptured, ErrCodeAuthAlreadyUsed}
            /\ accounts[ledger[h].account_id].balance_cents =
                   SeedAccounts[ledger[h].account_id].balance_cents - ledger[h].amount_cents

\* two captures raced, one won and the other was told the authorization is used
C1_Witness ==
    \E h \in Requests :
        /\ CapturesRaced(h)
        /\ \E r \in MatchingCaptures(h) : req[r].resp.status = 200
        /\ \E r \in MatchingCaptures(h) : req[r].resp.code = ErrCodeAuthAlreadyUsed

\* C3: every COMPLETED AUTH_HOLD has exactly one CAPTURE child or exactly one
\* VOID child and never both, and every AUTH_HOLD that has a CAPTURE or VOID
\* child is COMPLETED.
C3_CompletedHasOneChild ==
    \A h \in Rows :
        ledger[h].type = TransactionTypeAuthHold =>
            LET captures == Cardinality(Children(h, TransactionTypeCapture))
                voids == Cardinality(Children(h, TransactionTypeVoid))
            IN  /\ ledger[h].status = TransactionStatusCompleted =>
                       \/ captures = 1 /\ voids = 0
                       \/ captures = 0 /\ voids = 1
                /\ captures + voids > 0 => ledger[h].status = TransactionStatusCompleted

\* a voided authorization that a capture then tried to use
C3_Witness ==
    \E h \in Rows :
        /\ ledger[h].type = TransactionTypeAuthHold
        /\ ledger[h].status = TransactionStatusCompleted
        /\ Cardinality(Children(h, TransactionTypeVoid)) = 1
        /\ \E r \in Requests : /\ req[r].kind = "capture" /\ req[r].target = h
                               /\ Answered(r)
                               /\ req[r].resp.code = ErrCodeAuthAlreadyUsed

\* the posted-balance delta of a ledger row, by type
PostedDelta(row) ==
    CASE row.type = TransactionTypeAuthHold -> 0
      [] row.type = TransactionTypeCapture -> -row.amount_cents
      [] row.type = TransactionTypeVoid -> 0
      [] row.type = TransactionTypeRefund -> row.amount_cents

\* the available-balance delta of a ledger row, by type
AvailableDelta(row) ==
    CASE row.type = TransactionTypeAuthHold -> -row.amount_cents
      [] row.type = TransactionTypeCapture -> 0
      [] row.type = TransactionTypeVoid -> row.amount_cents
      [] row.type = TransactionTypeRefund -> row.amount_cents

\* C4: for every account, the posted balance minus its initial value is the sum
\* of the posted deltas of the account's ledger rows, and the available balance
\* minus its initial value is the sum of their available deltas.
C4_BalancesFollowLedger ==
    \A a \in AccountIds :
        /\ accounts[a].balance_cents - SeedAccounts[a].balance_cents =
               Sum([i \in RowIds |-> IF i \in Rows THEN PostedDelta(ledger[i]) ELSE 0], RowsOf(a))
        /\ accounts[a].available_balance_cents - SeedAccounts[a].available_balance_cents =
               Sum([i \in RowIds |-> IF i \in Rows THEN AvailableDelta(ledger[i]) ELSE 0],
                   RowsOf(a))

\* an account with one authorization captured and another still held
C4_Witness ==
    \E a \in AccountIds :
        /\ \E i \in RowsOf(a) : ledger[i].type = TransactionTypeCapture
        /\ \E i \in RowsOf(a) : /\ ledger[i].type = TransactionTypeAuthHold
                                /\ ledger[i].status = TransactionStatusActive
        /\ accounts[a].balance_cents # accounts[a].available_balance_cents

\* the service call of request r returns an error in this step
ServiceCallFails(r) ==
    /\ ~Answered(r)
    /\ req'[r].invoked
    /\ req'[r].resp # NoResp
    /\ req'[r].resp.status # 200

\* a failed call leaves no row, no status change and no balance change behind
NothingVisible ==
    \A r \in Requests :
        /\ Answered(r) /\ req[r].invoked /\ req[r].resp.status # 200 =>
               ledger[r] = NoRow /\ tx[r] = NoTx
        /\ tx[r].ins # NoRow => ledger[r] = NoRow

\* C9: every mutating service call is atomic: when it returns an error (a failed
\* guard, a duplicate insert, a failed status update, balance adjustment or
\* commit, a cancelled context), the ledger and the balances are what they were
\* before the call, and no write of it is visible afterwards.
C9_FailedCallChangesNothing ==
    /\ []NothingVisible
    /\ [][\A r \in Requests :
             ServiceCallFails(r) =>
                 /\ ledger' = ledger
                 /\ accounts' = accounts
                 /\ tx'[r] = NoTx]_vars

\* a capture that failed at commit, after its insert, status update and adjustment
C9_Witness ==
    \E r \in Requests :
        /\ req[r].kind = "capture"
        /\ Answered(r)
        /\ \E err \in ErrTexts :
               req[r].resp.message = Sprintf("failed to commit transaction", err)
        /\ ledger[r] = NoRow
        /\ req[r].target \in Rows
        /\ ledger[req[r].target].status = TransactionStatusActive

\* the authorize requests on account a that were approved
Approved(a) ==
    {r \in Requests : /\ req[r].kind = "authorize"
                      /\ AccountOfCard(req[r].card) = a
                      /\ req[r].resp.status = 200}

\* C10: the available balance of every account is never negative, and
\* authorizations that together exceed the available balance are never all
\* approved.
C10_AvailableNeverNegative ==
    \A a \in AccountIds :
        /\ accounts[a].available_balance_cents >= 0
        /\ (\A r \in Requests : req[r].kind \in {"authorize", "none"}) =>
               Sum([r \in Requests |-> req[r].amount], Approved(a))
                   <= SeedAccounts[a].available_balance_cents

\* two authorizations of one card that together exceed its available balance:
\* one approved, the other declined for insufficient funds
C10_Witness ==
    \E a \in AccountIds, r, q \in Requests :
        /\ r \in Approved(a)
        /\ req[q].kind = "authorize" /\ AccountOfCard(req[q].card) = a
        /\ Answered(q)
        /\ req[q].resp.status = 402
        /\ req[r].amount + req[q].amount > SeedAccounts[a].available_balance_cents
        /\ accounts[a].available_balance_cents >= 0

-----------------------------------------------------------------------------
(* Properties of the ledger under requests on settled rows (SpecSettled)    *)

-----------------------------------------------------------------------------
(* Properties of the middlewares (SpecHttp)                                 *)

\* request q enters the server in this step
Arrives(q) == req[q].pc = "new" /\ req'[q].pc # "new"

\* the idempotency record of the key and path of request record rec
RecordOf(rec) == idem[<<rec.key, PathOf(rec.kind)>>]

\* the response a replay of record cached writes
Replayed(cached) == [cached.response_body EXCEPT !.status = cached.response_status]

\* the chaos middleware answered request r with the injected 500
Injected(rec) == rec.resp = ChaosResponse /\ ~rec.invoked

\* the authorize requests with key k whose AUTH_HOLD row is committed
HoldsOfKey(k) ==
    {r \in Requests : /\ req[r].kind = "authorize"
                      /\ req[r].key = k
                      /\ ledger[r] # NoRow
                      /\ ledger[r].type = TransactionTypeAuthHold}

\* C5: for a given Idempotency-Key at most one AUTH_HOLD row is ever committed
\* by the POST /api/v1/authorizations requests that carry the key, under any
\* interleaving of retried or concurrent requests.
C5_OneHoldPerKey == \A k \in Keys : Cardinality(HoldsOfKey(k)) <= 1

\* C6 as stated: whenever a POST on a mutating path with an Idempotency-Key has
\* been answered, a later POST with the same key and path returns that original
\* status and body, does not invoke the handler and is marked as a replay.
C6_EveryResponseReplayed ==
    [][\A q \in Requests :
          Arrives(q) =>
              \A r \in Requests \ {q} :
                  (/\ req[r].pc = "done"
                   /\ req[r].key = req'[q].key
                   /\ req[r].kind = req'[q].kind) =>
                      /\ req'[q].replayed
                      /\ ~req'[q].invoked
                      /\ req'[q].resp = req[r].resp
                      /\ ledger' = ledger
                      /\ accounts' = accounts]_vars

\* every record is the 2xx response of a request with its key and path that went
\* to the handler, and every replay carries the record's status and body
RecordsAreResponses ==
    /\ \A k \in Keys, path \in idempotentPaths :
           idem[<<k, path>>] # NoRecord =>
               \E r \in Requests :
                   /\ req[r].key = k
                   /\ PathOf(req[r].kind) = path
                   /\ req[r].invoked /\ ~req[r].replayed
                   /\ req[r].resp = Replayed(idem[<<k, path>>])
    /\ \A q \in Requests :
           req[q].replayed =>
               /\ RecordOf(req[q]) # NoRecord
               /\ req[q].resp = Replayed(RecordOf(req[q]))
               /\ ~req[q].invoked
               /\ ledger[q] = NoRow

\* C6, amended: once a record is stored for (key, path), every later POST with
\* that key and path whose lookup succeeds returns the stored status and body,
\* does not invoke the handler (no new row, no balance change) and is marked as
\* a replay; the stored record is the 2xx response of a request with that key
\* and path.
C6_StoredResponseReplayed ==
    /\ []RecordsAreResponses
    /\ [][\A q \in Requests :
             (Arrives(q) /\ RecordOf(req'[q]) # NoRecord /\ ~req'[q].faulted) =>
                 /\ req'[q].replayed
                 /\ ~req'[q].invoked
                 /\ req'[q].pc = "done"
                 /\ req'[q].resp = Replayed(RecordOf(req'[q]))
                 /\ ledger' = ledger
                 /\ accounts' = accounts
                 /\ tx' = tx]_vars

\* an approved authorization and the replay of it that a retry received
C6_Witness ==
    \E r, q \in Requests :
        /\ r # q
        /\ req[r].kind = "authorize" /\ req[r].invoked /\ req[r].resp.status = 200
        /\ req[q].key = req[r].key /\ req[q].kind = req[r].kind
        /\ req[q].replayed
        /\ req[q].resp = req[r].resp

\* an injected 500 ends the request with nothing written and nothing to store
InjectedLeavesNothing ==
    \A r \in Requests :
        Injected(req[r]) =>
            /\ req[r].pc = "done"
            /\ ledger[r] = NoRow
            /\ tx[r] = NoTx
            /\ \/ RecordOf(req[r]) = NoRecord
               \/ RecordOf(req[r]).response_body # ChaosResponse

\* C7: a request that receives an injected 500 creates no ledger row, changes no
\* balance and stores no idempotency record, so a subsequent request with the
\* same key and path finds no record of it: unless a failure is injected into
\* it too, it reaches the handler.
C7_InjectedFailureLeavesNoTrace ==
    /\ []InjectedLeavesNothing
    /\ [][\A q \in Requests :
             Arrives(q) =>
                 /\ Injected(req'[q]) =>
                        /\ ledger' = ledger
                        /\ accounts' = accounts
                        /\ idem' = idem
                        /\ tx' = tx
                        /\ req'[q].pc = "done"
                 /\ (/\ ~Injected(req'[q])
                     /\ \A r \in Requests \ {q} :
                            (req[r].key = req'[q].key /\ req[r].kind = req'[q].kind)
                                => Injected(req[r])) => req'[q].invoked]_vars

\* an authorization failed by chaos, and the retry with its key approved, its hold committed
C7_Witness ==
    \E r, q \in Requests :
        /\ r # q
        /\ req[r].kind = "authorize" /\ Injected(req[r])
        /\ req[q].kind = "authorize" /\ req[q].key = req[r].key
        /\ req[q].invoked
        /\ req[q].resp.status = 200
        /\ ledger[q] # NoRow
        /\ ledger[r] = NoRow

\* C8: an idempotency record is stored only after a downstream response whose
\* status is in [200, 300): a response with a 4xx or 5xx status never reaches
\* Store, and every stored record has a 2xx status.
C8_OnlySuccessStored ==
    /\ \A k \in Keys, path \in idempotentPaths :
           idem[<<k, path>>] # NoRecord =>
               /\ idem[<<k, path>>].response_status >= 200
               /\ idem[<<k, path>>].response_status < 300
    /\ \A r \in Requests :
           req[r].pc = "store" => req[r].resp.status >= 200 /\ req[r].resp.status < 300

\* a handler's 400 and a chaos 500 that left no record, beside a stored 200
C8_Witness ==
    /\ \E r \in Requests :
           /\ req[r].pc = "done" /\ req[r].invoked /\ req[r].capture
           /\ req[r].resp.status = 400
           /\ RecordOf(req[r]) = NoRecord
    /\ \E k \in Keys, path \in idempotentPaths : idem[<<k, path>>] # NoRecord

-----------------------------------------------------------------------------
(* Balance accounting (Spec)                                                *)

\* the amount of each ledger row, 0 where there is no row
AmountOfRow == [i \in RowIds |-> IF i \in Rows THEN ledger[i].amount_cents ELSE 0]

\* the ACTIVE authorization holds of account a, expired or not
ActiveHolds(a) ==
    {i \in RowsOf(a) : /\ ledger[i].type = TransactionTypeAuthHold
                       /\ ledger[i].status = TransactionStatusActive}

\* C11: in every committed state, for an account seeded with available balance
\* equal to posted balance, the available balance equals the posted balance
\* minus the sum of the amounts of the account's ACTIVE AUTH_HOLD rows, whether
\* or not their expires_at has passed.
C11_AvailableIsPostedMinusHolds ==
    \A a \in AccountIds :
        SeedAccounts[a].available_balance_cents = SeedAccounts[a].balance_cents =>
            accounts[a].available_balance_cents =
                accounts[a].balance_cents - Sum(AmountOfRow, ActiveHolds(a))

\* an account whose hold is still ACTIVE after its expires_at has passed
C11_Witness ==
    \E a \in AccountIds :
        /\ \E i \in ActiveHolds(a) : ledger[i].expires_at < now
        /\ accounts[a].available_balance_cents < accounts[a].balance_cents

\* C12: in every committed state every account has available balance <= posted
\* balance, given that it held initially.
C12_AvailableAtMostPosted ==
    \A a \in AccountIds :
        SeedAccounts[a].available_balance_cents <= SeedAccounts[a].balance_cents =>
            accounts[a].available_balance_cents <= accounts[a].balance_cents

\* an account after a refund: both balances raised, available equal to posted
C12_Witness ==
    \E a \in AccountIds :
        /\ \E i \in RowsOf(a) : ledger[i].type = TransactionTypeRefund
        /\ accounts[a].available_balance_cents = accounts[a].balance_cents

\* the service call of request r succeeds in this step
Succeeds(r) == ~Answered(r) /\ req'[r].invoked /\ req'[r].resp.status = 200

\* the account that owns the card, hold or capture request r names
Owner(r) ==
    IF req[r].kind = "authorize" THEN AccountOfCard(req[r].card)
    ELSE ledger[req[r].target].account_id

\* the posted and available deltas the spec gives the operation of request r
PostedEffect(r) ==
    CASE req[r].kind = "authorize" -> 0
      [] req[r].kind = "capture" -> -req[r].amount
      [] req[r].kind = "void" -> 0
      [] req[r].kind = "refund" -> req[r].amount

AvailableEffect(r) ==
    CASE req[r].kind = "authorize" -> -req[r].amount
      [] req[r].kind = "capture" -> 0
      [] req[r].kind = "void" -> ledger[req[r].target].amount_cents
      [] req[r].kind = "refund" -> req[r].amount

\* C13: each successful operation applies exactly one balance adjustment, to the
\* account that owns the hold or capture and to no other: Authorize (0, -amount),
\* Capture (-amount, 0), Void (0, +hold amount), Refund (+amount, +amount); no
\* other step changes a balance.
C13_OneAdjustmentPerOperation ==
    [][/\ \A r \in Requests :
             Succeeds(r) =>
                 \A a \in AccountIds :
                     IF a = Owner(r)
                     THEN /\ accounts'[a].balance_cents =
                                 accounts[a].balance_cents + PostedEffect(r)
                          /\ accounts'[a].available_balance_cents =
                                 accounts[a].available_balance_cents + AvailableEffect(r)
                     ELSE accounts'[a] = accounts[a]
       /\ accounts' # accounts => \E r \in Requests : Succeeds(r)]_vars

\* a void of a hold of account B that succeeded while account A has a hold of its own
C13_Witness ==
    \E r \in Requests :
        /\ req[r].kind = "void"
        /\ req[r].resp.status = 200
        /\ ledger[req[r].target].account_id = "B"
        /\ accounts["B"].available_balance_cents = SeedAccounts["B"].available_balance_cents
        /\ ActiveHolds("A") # {}

-----------------------------------------------------------------------------
(* Round trips (Spec)                                                       *)

\* the rows of account a committed by requests other than those in S
OtherRows(a, S) == {p \in Requests \ S : ledger[p] # NoRow /\ ledger[p].account_id = a}

\* nothing but further authorizations was committed on account a beside S, so the
\* balances before the first operation of S were the seeded ones less those holds
OnlyHoldsBeside(a, S) == \A p \in OtherRows(a, S) : ledger[p].type = TransactionTypeAuthHold

BalancesAsBefore(a, S) ==
    /\ accounts[a].balance_cents = SeedAccounts[a].balance_cents
    /\ accounts[a].available_balance_cents =
           SeedAccounts[a].available_balance_cents - Sum(AmountOfRow, OtherRows(a, S))

\* request q is an operation of the given kind on the row of request r, and succeeded
SucceededOn(q, kind, r) ==
    /\ req[q].kind = kind
    /\ req[q].target = r
    /\ req[q].resp.status = 200

\* C14: for any account and any amount it can authorize, a successful Authorize
\* followed by a successful Void of that authorization, with no other operation
\* on the account in between, leaves posted and available balance equal to
\* their values before the Authorize.
C14_AuthorizeVoidRoundTrip ==
    \A a \in AccountIds, r, q \in Requests :
        (/\ r \in Approved(a)
         /\ SucceededOn(q, "void", r)
         /\ OnlyHoldsBeside(a, {r, q})) => BalancesAsBefore(a, {r, q})

\* an account that had a hold, then authorized and voided a second one
C14_Witness ==
    \E a \in AccountIds, r, q \in Requests :
        /\ r \in Approved(a)
        /\ SucceededOn(q, "void", r)
        /\ OnlyHoldsBeside(a, {r, q})
        /\ OtherRows(a, {r, q}) # {}
        /\ accounts[a].available_balance_cents < accounts[a].balance_cents

\* C15: for any account and any amount it can authorize, a successful
\* Authorize, then Capture of that authorization, then Refund of that capture,
\* with no other operation on the account in between, leaves posted and
\* available balance equal to their values before the Authorize.
C15_AuthorizeCaptureRefundRoundTrip ==
    \A a \in AccountIds, r, c, f \in Requests :
        (/\ r \in Approved(a)
         /\ SucceededOn(c, "capture", r)
         /\ SucceededOn(f, "refund", c)
         /\ OnlyHoldsBeside(a, {r, c, f})) => BalancesAsBefore(a, {r, c, f})

\* an authorization of the whole available balance, captured and refunded
C15_Witness ==
    \E a \in AccountIds, r, c, f \in Requests :
        /\ r \in Approved(a)
        /\ req[r].amount = SeedAccounts[a].available_balance_cents
        /\ SucceededOn(c, "capture", r)
        /\ SucceededOn(f, "refund", c)
        /\ ledger[f] # NoRow
        /\ accounts[a].balance_cents = SeedAccounts[a].balance_cents

-----------------------------------------------------------------------------
(* Refunds of a settled capture (SpecSettled)                               *)

\* the refund requests on capture c with the captured amount
MatchingRefunds(c) ==
    {r \in Requests : /\ req[r].kind = "refund"
                      /\ req[r].target = c
                      /\ req[r].amount = ledger[c].amount_cents}

\* the matching refunds of capture c have all been answered, none of them hit by
\* an infrastructure failure
RefundsAnswered(c) ==
    /\ MatchingRefunds(c) # {}
    /\ \A r \in MatchingRefunds(c) : Answered(r) /\ req[r].pc = "done" /\ ~req[r].faulted

\* exactly one of the answered refunds committed, the others were turned away
OneRefundCommitted(c) ==
    /\ Cardinality({r \in MatchingRefunds(c) : req[r].resp.status = 200}) = 1
    /\ \A r \in MatchingRefunds(c) :
           IF req[r].resp.status = 200
           THEN /\ ledger[r] # NoRow
                /\ ledger[r].type = TransactionTypeRefund
                /\ ledger[r].reference_id = c
           ELSE /\ req[r].resp.status = 400
                /\ req[r].resp.code = ErrCodeAlreadyRefunded
                /\ ledger[r] = NoRow

\* no capture has two refunds, and of its answered refunds one committed
RefundedOnce ==
    \A c \in Rows :
        ledger[c].type = TransactionTypeCapture =>
            /\ Cardinality(Children(c, TransactionTypeRefund)) <= 1
            /\ RefundsAnswered(c) => OneRefundCommitted(c)

\* the refund request r is answered in this step
RefundAnswered(r) ==
    /\ req[r].kind = "refund"
    /\ ~Answered(r)
    /\ req'[r].resp # NoResp

\* C16: a capture is refunded at most once: among any number of sequential or
\* concurrent Refund requests for one capture with the matching amount, exactly
\* one commits a REFUND row and raises both balances by the amount, once; every
\* other one fails with already_refunded and changes nothing.
C16_RefundedAtMostOnce ==
    /\ []RefundedOnce
    /\ [][\A r \in Requests :
             RefundAnswered(r) =>
                 IF req'[r].resp.status = 200
                 THEN \A a \in AccountIds :
                          IF a = Owner(r)
                          THEN /\ accounts'[a].balance_cents =
                                      accounts[a].balance_cents + req[r].amount
                               /\ accounts'[a].available_balance_cents =
                                      accounts[a].available_balance_cents + req[r].amount
                          ELSE accounts'[a] = accounts[a]
                 ELSE accounts' = accounts /\ ledger' = ledger]_vars

\* three refunds of the settled capture: one refunded it, two were told so
C16_Witness ==
    /\ Cardinality(MatchingRefunds(SeedCaptureId)) = 3
    /\ RefundsAnswered(SeedCaptureId)
    /\ Cardinality({r \in MatchingRefunds(SeedCaptureId) :
                       req[r].resp.code = ErrCodeAlreadyRefunded}) = 2

-----------------------------------------------------------------------------
(* Retries and error responses                                              *)

\* the request was answered with a 5xx status
ServerError(rec) == rec.resp # NoResp /\ rec.resp.status >= 500

\* q repeats r: the same route, key and body
Repeats(q, r) ==
    /\ q # r
    /\ req[q].kind = req[r].kind
    /\ req[q].key = req[r].key
    /\ req[q].card = req[r].card /\ req[q].cvv = req[r].cvv
    /\ req[q].amount = req[r].amount /\ req[q].target = req[r].target

\* a request answered 5xx has committed nothing, so it and its repetition have
\* committed at most one row between them
NothingBehindServerError ==
    \A r \in Requests :
        ServerError(req[r]) =>
            /\ req[r].pc = "done"
            /\ ledger[r] = NoRow
            /\ tx[r] = NoTx
            /\ \A q \in Requests :
                   Repeats(q, r) => Cardinality({p \in {r, q} : ledger[p] # NoRow}) <= 1

\* C17 (SpecHttp): clients may safely retry on 5xx: every mutating request that
\* is answered with a 5xx status has committed no ledger row and no balance
\* change, so repeating it with the same Idempotency-Key applies the operation
\* at most once in total.
C17_ServerErrorCommitsNothing ==
    /\ []NothingBehindServerError
    /\ [][\A r \in Requests :
             (~Answered(r) /\ ServerError(req'[r])) =>
                 /\ ledger' = ledger
                 /\ accounts' = accounts
                 /\ idem' = idem]_vars

\* a capture that the handler answered 500 when its insert failed, and the
\* repetition with the same key that captured
C17_Witness ==
    \E r, q \in Requests :
        /\ req[r].kind = "capture"
        /\ req[r].invoked /\ ServerError(req[r])
        /\ Repeats(q, r)
        /\ req[q].resp.status = 200
        /\ ledger[q] # NoRow /\ ledger[r] = NoRow

\* a database failure makes the service call of request r fail in this step, at
\* BeginTx, at the insert, at the status update, at the balance adjustment or at
\* Commit (a failed lookup of the principal row is answered as not found)
InternalFailure(r) ==
    /\ ~req[r].faulted
    /\ req'[r].faulted
    /\ req'[r].invoked
    /\ req'[r].resp # NoResp
    /\ req[r].pc \in {"new", "write", "adjust", "commit"}

\* C18 (Spec): whenever a mutating service call fails because of an unexpected
\* internal error (a database failure when beginning the transaction, inserting
\* the ledger row, updating the authorization status, adjusting the balance or
\* committing), the HTTP response has status 500 and error code internal_error.
C18_InternalFailureAnswers500 ==
    [][\A r \in Requests :
          InternalFailure(r) =>
              /\ req'[r].resp.status = 500
              /\ req'[r].resp.code = ErrCodeInternalError]_vars

\* the messages the services format around a database error
WrappedMessages ==
    {"failed to start transaction", "failed to commit transaction",
     "failed to create authorization", "failed to adjust balance",
     "failed to update authorization", "failed to check existing capture",
     "failed to create capture", "failed to create void", "failed to create refund"}

\* the message carries the text of a database error
CarriesErrorText(message) ==
    \E m \in WrappedMessages, err \in ErrTexts : message = Sprintf(m, err)

\* C19 (Spec): internal details never leak to clients: the body of a response
\* with code internal_error is the same whatever the text of the underlying
\* database error, i.e. it carries a fixed message.
C19_InternalErrorMessageFixed ==
    \A r \in Requests :
        (Answered(r) /\ req[r].resp.code = ErrCodeInternalError) =>
            ~CarriesErrorText(req[r].resp.message)

\* the codes of the typed business-rule rejections
BusinessCodes == KnownCodes \ {ErrCodeInternalError}

\* C20 (Spec): every typed business-rule rejection of a mutating request maps to
\* HTTP 400, except insufficient_funds which maps to HTTP 402; 402 is returned
\* for no other code, and every successful mutating request returns 200.
C20_RejectionStatus ==
    /\ \A r \in Requests :
           (Answered(r) /\ req[r].invoked) =>
               /\ req[r].resp.code \in BusinessCodes \ {ErrCodeInsufficientFunds} =>
                      req[r].resp.status = 400
               /\ req[r].resp.code = ErrCodeInsufficientFunds <=> req[r].resp.status = 402
               /\ ledger[r] # NoRow <=> req[r].resp.status = 200
    /\ \A kind \in Kinds, code \in BusinessCodes :
           LET resp == HandleError(kind, ServiceError(code, "rejected"))
           IN  /\ resp.code = code
               /\ resp.status = IF kind = "authorize" /\ code = ErrCodeInsufficientFunds
                                THEN 402 ELSE 400

\* an approval, a decline for insufficient funds and a business-rule rejection
C20_Witness ==
    /\ \E r \in Requests : req[r].resp.status = 200 /\ ledger[r] # NoRow
    /\ \E r \in Requests :
           /\ Answered(r)
           /\ req[r].resp.status = 402 /\ req[r].resp.code = ErrCodeInsufficientFunds
    /\ \E r \in Requests :
           /\ Answered(r)
           /\ req[r].resp.status = 400 /\ req[r].resp.code = ErrCodeAmountMismatch

-----------------------------------------------------------------------------
(* Properties of the variant without the row lock in Capture (SpecPlainRead) *)

\* the capture requests on authorization h that read the row while it was ACTIVE
\* and passed every check of performCapture
PassedChecks(h) ==
    {r \in MatchingCaptures(h) :
        \/ Answered(r) /\ req[r].resp.status = 200
        \/ Answered(r) /\ req[r].resp.code = ErrCodeAlreadyCaptured}

\* the amounts of the CAPTURE rows of account a
CapturedAmounts(a) ==
    Sum(AmountOfRow,
        {i \in RowsOf(a) : ledger[i].type = TransactionTypeCapture})

\* C21: in the variant where Capture reads the AUTH_HOLD row without the row
\* lock, two concurrent captures of the same authorization cannot both commit a
\* CAPTURE row, and the posted balance is decremented at most once for it: the
\* posted balance is the seeded one less one amount per CAPTURE row.
C21_IndexAloneSuffices ==
    /\ \A h \in Rows :
           ledger[h].type = TransactionTypeAuthHold =>
               Cardinality(Children(h, TransactionTypeCapture)) <= 1
    /\ \A a \in AccountIds :
           accounts[a].balance_cents = SeedAccounts[a].balance_cents - CapturedAmounts(a)

\* two captures both read the authorization as ACTIVE; one committed its CAPTURE
\* row and the other was turned away by the unique index
C21_Witness ==
    \E h \in Rows :
        /\ ledger[h].type = TransactionTypeAuthHold
        /\ \E r1, r2 \in PassedChecks(h) :
               /\ req[r1].resp.status = 200
               /\ req[r2].resp.code = ErrCodeAlreadyCaptured
               /\ ~req[r1].faulted /\ ~req[r2].faulted
        /\ accounts[ledger[h].account_id].balance_cents =
               SeedAccounts[ledger[h].account_id].balance_cents - ledger[h].amount_cents

-----------------------------------------------------------------------------
(* Balance adjustments under concurrency (Spec)                             *)

\* the requests whose AdjustBalances call on account a succeeded and was committed
Adjusted(a) ==
    {r \in Requests : /\ Answered(r) /\ req[r].invoked /\ req[r].resp.status = 200
                      /\ Owner(r) = a}

\* C22: lost updates are impossible: whatever the interleaving of the calls, the
\* posted balance of an account is its initial value plus the sum of the posted
\* deltas of the AdjustBalances calls that succeeded on it, and the available
\* balance is its initial value plus the sum of their available deltas.
C22_NoLostUpdate ==
    \A a \in AccountIds :
        /\ accounts[a].balance_cents =
               SeedAccounts[a].balance_cents
                   + Sum([r \in Requests |-> PostedEffect(r)], Adjusted(a))
        /\ accounts[a].available_balance_cents =
               SeedAccounts[a].available_balance_cents
                   + Sum([r \in Requests |-> AvailableEffect(r)], Adjusted(a))

\* two adjustments of one account are committed, the second of them by a call
\* that ran while another transaction held the account's row
C22_Witness ==
    \E a \in AccountIds :
        /\ Cardinality(Adjusted(a)) >= 2
        /\ \E r \in Adjusted(a) : req[r].kind = "capture"
        /\ \E q \in Requests : tx[q].acctLock = a /\ req[q].pc = "commit"

-----------------------------------------------------------------------------
(* Rejections of Capture (Spec)                                             *)

\* the code of the first check of Capture that request r fails, or "ok"
CaptureVerdict(r) ==
    LET id == req[r].target
    IN  IF id \notin Rows \/ ledger[id].type # TransactionTypeAuthHold
        THEN ErrCodeAuthNotFound
        ELSE IF ledger[id].status # TransactionStatusActive THEN ErrCodeAuthAlreadyUsed
        ELSE IF now > ledger[id].expires_at THEN ErrCodeAuthExpired
        ELSE IF req[r].amount # ledger[id].amount_cents THEN ErrCodeAmountMismatch
        ELSE "ok"

CaptureRejections ==
    {ErrCodeAuthNotFound, ErrCodeAuthAlreadyUsed, ErrCodeAuthExpired, ErrCodeAmountMismatch}

\* this step answers request r with 400 and the given code and changes no state
RejectedWith(r, code) ==
    /\ req'[r].resp # NoResp
    /\ req'[r].resp.status = 400
    /\ req'[r].resp.code = code
    /\ ledger' = ledger
    /\ accounts' = accounts

\* request r, untouched by a database failure, runs its lookup or its checks in this step
Examines(r) ==
    /\ req[r].pc \in {"lock", "write"}
    /\ req'[r].pc # req[r].pc
    /\ ~req'[r].faulted

\* C23: Capture rejects in this order, with no state change and with the code of
\* the first failing check: the id names no row or a row that is not an AUTH_HOLD
\* (authorization_not_found); the status is not ACTIVE (authorization_already_used);
\* expires_at is in the past (authorization_expired); the amount differs from the
\* authorized amount (amount_mismatch).  A capture that fails none of them is
\* answered with none of these codes.
C23_CaptureRejectsInOrder ==
    [][\A r \in Requests :
          req[r].kind = "capture" /\ Examines(r) =>
              LET v == CaptureVerdict(r)
              IN  IF v = ErrCodeAuthNotFound THEN RejectedWith(r, v)
                  ELSE IF req[r].pc = "lock" THEN req'[r].resp = NoResp
                  ELSE IF v # "ok" THEN RejectedWith(r, v)
                  ELSE \/ req'[r].resp = NoResp
                       \/ req'[r].resp.code \notin CaptureRejections]_vars

\* a capture with the wrong amount of an authorization that had expired was
\* told that the authorization has expired
C23_Witness ==
    \E r \in Requests :
        /\ req[r].kind = "capture"
        /\ Answered(r) /\ ~req[r].faulted
        /\ req[r].resp.code = ErrCodeAuthExpired
        /\ req[r].target \in Rows
        /\ req[r].amount # ledger[req[r].target].amount_cents

-----------------------------------------------------------------------------
(* Rejections of Authorize (SpecAuthorize)                                  *)

\* the code of the first check of Authorize that the request record fails, or "ok"
AuthorizeVerdict(rec) ==
    LET a == AccountOfCard(rec.card)
    IN  IF ~ValidateLuhn(rec.card) THEN ErrCodeInvalidCard
        ELSE IF ~ValidateCVV(rec.cvv) THEN ErrCodeInvalidCVV
        ELSE IF rec.amount <= 0 THEN ErrCodeInvalidAmount
        ELSE IF a = NoAccount THEN ErrCodeInvalidCard
        ELSE IF SeedAccounts[a].cvv # rec.cvv THEN ErrCodeInvalidCVV
        ELSE IF ~ValidateExpiry(SeedAccounts[a].expiry_month, SeedAccounts[a].expiry_year)
             THEN ErrCodeCardExpired
        ELSE IF accounts[a].available_balance_cents < rec.amount
             THEN ErrCodeInsufficientFunds
        ELSE "ok"

\* this step answers request r, and no database failure has touched r
AnswersUnfaulted(r) == req[r].resp = NoResp /\ req'[r].resp # NoResp /\ ~req'[r].faulted

\* C24: Authorize rejects in this order, without creating a row or changing a
\* balance: Luhn failure (invalid_card), malformed CVV (invalid_cvv), amount <= 0
\* (invalid_amount), no account for the card (invalid_card), CVV differs from the
\* account's (invalid_cvv), card expired (card_expired), available balance below
\* the amount (insufficient_funds); a request failing none of them is approved.
C24_AuthorizeRejectsInOrder ==
    [][\A r \in Requests :
          req'[r].kind = "authorize" /\ AnswersUnfaulted(r) =>
              LET v == AuthorizeVerdict(req'[r])
              IN  IF v = "ok"
                  THEN req'[r].resp.status = 200
                  ELSE /\ req'[r].resp.status # 200
                       /\ req'[r].resp.code = v
                       /\ ledger' = ledger
                       /\ accounts' = accounts]_vars

\* an authorization on the expired card, with the CVV of another card and an
\* amount above the balance, was told that the CVV is wrong
C24_Witness ==
    \E r \in Requests :
        /\ req[r].kind = "authorize"
        /\ Answered(r) /\ ~req[r].faulted
        /\ req[r].card = CardC
        /\ req[r].cvv = SeedAccounts["A"].cvv
        /\ req[r].amount > SeedAccounts["C"].available_balance_cents
        /\ req[r].resp.code = ErrCodeInvalidCVV
        /\ ledger[r] = NoRow

-----------------------------------------------------------------------------
(* An authorization is used once (Spec)                                     *)

\* authorization h has been captured or voided: its CAPTURE or VOID row is committed
UsedUp(h) ==
    /\ h \in Rows
    /\ ledger[h].type = TransactionTypeAuthHold
    /\ Children(h, TransactionTypeCapture) \cup Children(h, TransactionTypeVoid) # {}

\* C25: once an authorization has been captured or voided, every later Capture
\* or Void of it fails with HTTP 400 authorization_already_used and changes
\* nothing; in particular a Void after a Capture returns authorization_already_used.
C25_UsedAuthorizationStaysUsed ==
    [][\A r \in Requests :
          /\ req[r].kind \in {"capture", "void"}
          /\ AnswersUnfaulted(r)
          /\ UsedUp(req[r].target)
          => RejectedWith(r, ErrCodeAuthAlreadyUsed)]_vars

\* a void of a captured authorization was told that the authorization is used
C25_Witness ==
    \E r \in Requests :
        /\ req[r].kind = "void"
        /\ Answered(r) /\ ~req[r].faulted
        /\ req[r].resp.status = 400
        /\ req[r].resp.code = ErrCodeAuthAlreadyUsed
        /\ req[r].target \in Rows
        /\ Children(req[r].target, TransactionTypeCapture) # {}

-----------------------------------------------------------------------------
(* Rejections of Refund (SpecSettled)                                       *)

\* the code of the first check of Refund that request r fails, or "ok"
RefundVerdict(r) ==
    LET id == req[r].target
    IN  IF id \notin Rows \/ ledger[id].type # TransactionTypeCapture
        THEN ErrCodeCaptureNotFound
        ELSE IF ledger[id].status # TransactionStatusCompleted THEN ErrCodeCaptureNotFound
        ELSE IF req[r].amount # ledger[id].amount_cents THEN ErrCodeAmountMismatch
        ELSE "ok"

\* a CAPTURE row that is not COMPLETED, as performRefund would receive it
PendingCapture ==
    Transaction("A", TransactionTypeCapture, 1, SeedAuthId, TransactionStatusActive, NoExpiry)

\* what performRefund answers to a refund of 1 of PendingCapture
PendingCaptureRefund ==
    performRefund(1, [NewRequest EXCEPT !.kind = "refund", !.amount = 1,
                                        !.target = SeedCaptureId],
                  [NoTx EXCEPT !.row = PendingCapture])

\* the checks of Refund hold in every step that runs them
RefundChecksHold ==
    \A r \in Requests :
        req[r].kind = "refund" /\ Examines(r) =>
            LET v == RefundVerdict(r)
            IN  IF v = ErrCodeCaptureNotFound THEN RejectedWith(r, v)
                ELSE IF req[r].pc = "lock" THEN req'[r].resp = NoResp
                ELSE IF v # "ok" THEN RejectedWith(r, v)
                ELSE \/ req'[r].resp = NoResp
                     \/ req'[r].resp.code \notin {ErrCodeCaptureNotFound, ErrCodeAmountMismatch}

\* a capture that is not COMPLETED is answered capture_not_found, whatever else holds
PendingCaptureNotFound ==
    \A o \in PendingCaptureRefund :
        o.err.code = ErrCodeCaptureNotFound /\ o.tx.ins = NoRow /\ o.tx.adjAcct = NoAccount

\* C26: Refund rejects with no state change: capture_not_found when the id names
\* no row, a row that is not a CAPTURE, or a CAPTURE whose status is not
\* COMPLETED; amount_mismatch when the amount differs from the captured amount.
C26_RefundRejects == []PendingCaptureNotFound /\ [][RefundChecksHold]_vars

\* one refund named the authorization and was told there is no such capture,
\* another named the capture with a wrong amount
C26_Witness ==
    \E r, q \in Requests :
        /\ req[r].kind = "refund" /\ req[q].kind = "refund"
        /\ Answered(r) /\ ~req[r].faulted
        /\ Answered(q) /\ ~req[q].faulted
        /\ req[r].target = SeedAuthId
        /\ req[r].resp.code = ErrCodeCaptureNotFound
        /\ req[q].target = SeedCaptureId
        /\ req[q].amount # ledger[SeedCaptureId].amount_cents
        /\ req[q].resp.code = ErrCodeAmountMismatch
        /\ Children(SeedCaptureId, TransactionTypeRefund) = {}

-----------------------------------------------------------------------------
(* Expired authorizations (Spec)                                            *)

\* request r is about to run the checks of Capture on an ACTIVE authorization
\* whose expires_at is in the past
ChecksExpiredHold(r) ==
    /\ req[r].kind = "capture"
    /\ req[r].pc = "write"
    /\ ledger[req[r].target].status = TransactionStatusActive
    /\ ledger[req[r].target].expires_at < now

\* nothing of a capture answered authorization_expired is in the ledger
ExpiredCaptureWroteNothing ==
    \A r \in Requests :
        /\ req[r].kind = "capture" /\ Answered(r) /\ ~req[r].faulted
        /\ req[r].resp.code = ErrCodeAuthExpired
        => /\ ledger[r] = NoRow
           /\ tx[r] = NoTx
           /\ req[r].resp.status = 400

\* C27: a Capture of an ACTIVE authorization whose expires_at is in the past
\* fails with authorization_expired and writes nothing: the hold stays ACTIVE,
\* no CAPTURE row is created and the balances are unchanged.
C27_ExpiredCaptureWritesNothing ==
    /\ []ExpiredCaptureWroteNothing
    /\ [][\A r \in Requests :
             ChecksExpiredHold(r) /\ req'[r].pc # "write" /\ ~req'[r].faulted =>
                 /\ req'[r].resp # NoResp
                 /\ req'[r].resp.code = ErrCodeAuthExpired
                 /\ ledger'[req[r].target].status = TransactionStatusActive
                 /\ \A i \in RowIds :
                        ledger'[i] # NoRow => ~(/\ ledger'[i].type = TransactionTypeCapture
                                                /\ ledger'[i].reference_id = req[r].target)
                 /\ accounts' = accounts]_vars

\* a capture with the authorized amount came after the hour: it was told that the
\* authorization has expired, and the hold is still ACTIVE and holds its amount
C27_Witness ==
    \E r \in Requests :
        /\ req[r].kind = "capture"
        /\ Answered(r) /\ ~req[r].faulted
        /\ req[r].resp.code = ErrCodeAuthExpired
        /\ req[r].target \in Rows
        /\ req[r].amount = ledger[req[r].target].amount_cents
        /\ ledger[req[r].target].status = TransactionStatusActive
        /\ Children(req[r].target, TransactionTypeCapture) = {}
        /\ LET a == ledger[req[r].target].account_id
           IN  /\ accounts[a].balance_cents = SeedAccounts[a].balance_cents
               /\ accounts[a].available_balance_cents < accounts[a].balance_cents

-----------------------------------------------------------------------------
(* Failures of the idempotency store (SpecHttp)                             *)

\* db.BeginTx failed for the request: the handler answered 400 internal_error
BeginTxFailed(rec) ==
    /\ rec.resp # NoResp
    /\ rec.resp.status = 400
    /\ rec.resp.code = ErrCodeInternalError

\* request r arrives with a key in this step and repo.Get returns an error: the
\* failure that hits r at its arrival is not the one of its service call
LookupFails(r) ==
    /\ Arrives(r)
    /\ req'[r].key # NoKey
    /\ req'[r].faulted
    /\ ~BeginTxFailed(req'[r])

\* a response that is not captured is never handed to Store
UncapturedNeverStored == \A r \in Requests : req[r].pc = "store" => req[r].capture

\* the store changes only in the step of a request whose captured response is stored
OnlyCapturedStored ==
    idem' # idem =>
        \E r \in Requests :
            /\ req[r].pc = "store" /\ req'[r].pc = "done"
            /\ idem' = [idem EXCEPT ![<<req[r].key, PathOf(req[r].kind)>>] =
                            IdempotencyKey(req[r].resp.status, req[r].resp)]

\* C28: when the idempotency lookup fails with a read error the middleware fails
\* open: the request goes down the chain to the handler as if it had no record,
\* the response of the chain is returned as it is (not a replay), and that
\* response is not captured and so is not stored.
C28_LookupFailureFailsOpen ==
    /\ []UncapturedNeverStored
    /\ [][/\ OnlyCapturedStored
          /\ \A r \in Requests :
                 LookupFails(r) =>
                     /\ req'[r].invoked \/ Injected(req'[r])
                     /\ ~req'[r].replayed
                     /\ ~req'[r].capture
                     /\ idem' = idem]_vars

\* the lookup failed for a request whose key has a stored record: the handler ran
\* again and committed a second hold, and the record is still the first response
C28_Witness ==
    \E r, q \in Requests :
        /\ r # q
        /\ req[r].kind = "authorize" /\ req[q].kind = "authorize"
        /\ req[r].key = req[q].key
        /\ req[r].faulted /\ ~req[r].capture /\ ~req[r].replayed
        /\ req[r].invoked /\ req[r].pc = "done"
        /\ req[r].resp.status = 200
        /\ ledger[r] # NoRow
        /\ RecordOf(req[q]) # NoRecord
        /\ Replayed(RecordOf(req[q])) = req[q].resp
        /\ req[q].resp # req[r].resp

\* repo.Store returns an error for the response of request r in this step
StoreFails(r) ==
    /\ req[r].pc = "store"
    /\ req'[r].pc = "done"
    /\ ~req[r].faulted /\ req'[r].faulted

\* what the handler of a finished request answered 200 for is in the ledger
CommittedEffectsRemain ==
    \A r \in Requests :
        /\ req[r].pc = "done" /\ req[r].invoked
        /\ req[r].resp.status = 200
        => /\ ledger[r] # NoRow
           /\ ledger[r].amount_cents = req[r].resp.amount

\* C29: when storing the idempotency record fails, the response the handler
\* has produced reaches the client unchanged, and the ledger rows and balance
\* changes it committed remain.
C29_StoreFailureKeepsResponse ==
    /\ []CommittedEffectsRemain
    /\ [][\A r \in Requests :
             StoreFails(r) =>
                 /\ req'[r].resp = req[r].resp
                 /\ ledger' = ledger
                 /\ accounts' = accounts
                 /\ idem' = idem]_vars

\* the store failed after an approved authorization: the client has its 200, the
\* hold is in the ledger and in the available balance, and there is no record
C29_Witness ==
    \E r \in Requests :
        /\ req[r].kind = "authorize"
        /\ req[r].pc = "done" /\ req[r].capture /\ req[r].faulted
        /\ req[r].resp.status = 200
        /\ ledger[r] # NoRow
        /\ accounts[ledger[r].account_id].available_balance_cents
               < SeedAccounts[ledger[r].account_id].available_balance_cents
        /\ RecordOf(req[r]) = NoRecord

\* records a later put may carry: a 400 and a 200 that are nobody's response
LaterRecords ==
    {IdempotencyKey(400, ErrorResponse(400, ErrCodeInvalidCard, "second response")),
     IdempotencyKey(200, OkResponse("authorize", UnknownId,
                                    Transaction("B", TransactionTypeAuthHold, MaxAmount,
                                                NoRef, TransactionStatusActive, NoExpiry)))}

\* a put on a key and path that have a record leaves every record as it is
PutKeepsFirst ==
    \A k \in Keys, path \in idempotentPaths, record \in LaterRecords :
        idem[<<k, path>>] # NoRecord => Store(k, path, record) = idem

\* request r puts its response in this step and the put returns no error
Puts(r) == req[r].pc = "store" /\ req'[r].pc = "done" /\ ~req'[r].faulted

\* C30: the idempotency store keeps the first write: after put(key, path, r1), any
\* number of later put(key, path, r) change nothing, and get(key, path) returns
\* the status and body of r1.
C30_FirstWriteWins ==
    /\ []PutKeepsFirst
    /\ [][/\ \A k \in Keys, path \in idempotentPaths :
                 idem[<<k, path>>] # NoRecord => idem'[<<k, path>>] = idem[<<k, path>>]
          /\ \A r \in Requests :
                 Puts(r) /\ RecordOf(req[r]) = NoRecord =>
                     /\ RecordOf(req[r])' = IdempotencyKey(req[r].resp.status, req[r].resp)
                     /\ Replayed(RecordOf(req[r])') = req[r].resp]_vars

\* two requests with one key both put their response, and the responses differ:
\* the record is the one of the first put
C30_Witness ==
    \E r, q \in Requests :
        /\ r # q
        /\ req[r].key = req[q].key /\ req[r].kind = req[q].kind
        /\ req[r].capture /\ req[q].capture
        /\ req[r].pc = "done" /\ req[q].pc = "done"
        /\ ~req[r].faulted /\ ~req[q].faulted
        /\ shouldCacheResponse(req[r].resp.status)
        /\ shouldCacheResponse(req[q].resp.status)
        /\ req[r].resp # req[q].resp
        /\ Replayed(RecordOf(req[r])) = req[r].resp

-----------------------------------------------------------------------------
(* The idempotency key is scoped by path (SpecHttp)                         *)

\* every replayed response is the response the handler of the same path gave
ReplaysAreOfSamePath ==
    \A q \in Requests :
        req[q].replayed =>
            \E r \in Requests \ {q} :
                /\ req[r].key = req[q].key
                /\ PathOf(req[r].kind) = PathOf(req[q].kind)
                /\ req[r].invoked
                /\ req[r].resp = [req[q].resp EXCEPT !.status = req[r].resp.status]

\* C31: idempotency records are keyed by (key, path): a record stored for a key
\* on one mutating path is never replayed for a request with the same key on
\* another path, and that request goes to its handler.
C31_RecordsKeyedByKeyAndPath ==
    /\ []ReplaysAreOfSamePath
    /\ [][\A q \in Requests :
             Arrives(q) /\ req'[q].key # NoKey /\ RecordOf(req'[q]) = NoRecord =>
                 /\ ~req'[q].replayed
                 /\ req'[q].invoked \/ Injected(req'[q])]_vars

\* the key of a stored authorization was sent with a capture: the capture went
\* to its handler and was not answered with the authorization's response
C31_Witness ==
    \E r, q \in Requests :
        /\ req[r].kind = "authorize" /\ req[q].kind = "capture"
        /\ req[r].key = req[q].key
        /\ RecordOf(req[r]) # NoRecord
        /\ Replayed(RecordOf(req[r])) = req[r].resp
        /\ req[q].target = r
        /\ ~req[q].faulted /\ ~req[q].replayed
        /\ req[q].invoked /\ req[q].pc = "done"
        /\ req[q].resp.status = 200
        /\ ledger[q] # NoRow

-----------------------------------------------------------------------------
(* Requests the idempotency middleware lets through (SpecBypass)            *)

\* a GET, a POST to a path other than the four mutating paths, or a POST
\* without an Idempotency-Key header
Bypasses(rec) ==
    \/ MethodOf(rec.kind) = MethodGet
    \/ PathOf(rec.kind) \notin idempotentPaths
    \/ rec.key = NoKey

\* no response of such a request is ever on its way to the store
BypassNeverStored ==
    \A r \in Requests :
        req[r].pc # "new" /\ Bypasses(req[r]) =>
            /\ req[r].pc # "store"
            /\ ~req[r].capture
            /\ ~req[r].replayed

\* C32: the idempotency middleware neither reads nor writes the idempotency
\* store for GET requests, for POSTs to paths other than the four mutating
\* paths, and for POSTs without an Idempotency-Key header: such a request is
\* never answered from the store, no lookup can fail for it, its response is
\* never stored, and it always goes down the chain to the handler.
C32_BypassLeavesStoreAlone ==
    /\ []BypassNeverStored
    /\ [][\A q \in Requests :
             /\ Arrives(q) /\ Bypasses(req'[q]) =>
                    /\ req'[q].invoked \/ Injected(req'[q])
                    /\ req'[q].faulted => req'[q].invoked /\ req'[q].resp # NoResp
                    /\ idem' = idem
             /\ req[q].pc # "new" /\ Bypasses(req[q]) /\ req'[q] # req[q] =>
                    idem' = idem]_vars

\* the key of a stored authorization came with a GET on the same path, which the
\* mux answered, while an authorization without a key was approved and not stored
C32_Witness ==
    \E r, q, p \in Requests :
        /\ req[r].kind = "authorize" /\ req[r].key # NoKey
        /\ idem[<<req[r].key, PathOf("authorize")>>] # NoRecord
        /\ req[q].kind = "get_authorizations" /\ req[q].key = req[r].key
        /\ req[q].invoked /\ req[q].pc = "done"
        /\ req[q].resp.status = 405
        /\ req[p].kind = "authorize" /\ req[p].key = NoKey
        /\ req[p].invoked /\ req[p].pc = "done"
        /\ req[p].resp.status = 200
        /\ ledger[p] # NoRow

-----------------------------------------------------------------------------
(* The ledger is append-only and statuses are monotone (Spec)               *)

\* the status each type of row is created with
CreatedStatus(type) ==
    IF type = TransactionTypeAuthHold THEN TransactionStatusActive
    ELSE TransactionStatusCompleted

\* every row has a status its type can have; none is EXPIRED
StatusesOfType ==
    \A i \in Rows :
        /\ ledger[i].status \in {TransactionStatusActive, TransactionStatusCompleted}
        /\ ledger[i].type # TransactionTypeAuthHold =>
               ledger[i].status = TransactionStatusCompleted

\* what this step does to the row with id i
RowStep(i) ==
    IF ledger[i] = NoRow
    THEN ledger'[i] # NoRow => ledger'[i].status = CreatedStatus(ledger'[i].type)
    ELSE /\ ledger'[i] # NoRow
         /\ ledger'[i] = [ledger[i] EXCEPT !.status = ledger'[i].status]
         /\ \/ ledger'[i].status = ledger[i].status
            \/ /\ ledger[i].type = TransactionTypeAuthHold
               /\ ledger[i].status = TransactionStatusActive
               /\ ledger'[i].status = TransactionStatusCompleted

\* C33: ledger statuses are monotone: an AUTH_HOLD is created ACTIVE and its
\* status only ever changes ACTIVE -> COMPLETED (never back, and nothing writes
\* EXPIRED); CAPTURE, VOID and REFUND rows are created COMPLETED and their status
\* never changes; no row is ever deleted or has its amount, type, account or
\* reference changed.
C33_StatusesMonotone ==
    []StatusesOfType /\ [][\A i \in RowIds : RowStep(i)]_vars

\* one hold was captured and is COMPLETED; another is past its expiry and still ACTIVE
C33_Witness ==
    \E h, g \in Rows :
        /\ ledger[h].type = TransactionTypeAuthHold
        /\ ledger[h].status = TransactionStatusCompleted
        /\ Children(h, TransactionTypeCapture) # {}
        /\ ledger[g].type = TransactionTypeAuthHold
        /\ ledger[g].status = TransactionStatusActive
        /\ ledger[g].expires_at < now

-----------------------------------------------------------------------------
(* References between ledger rows (Spec)                                    *)

\* the type of row a row of the given type refers to
ReferencedType(type) ==
    IF type = TransactionTypeRefund THEN TransactionTypeCapture
    ELSE TransactionTypeAuthHold

\* C34: in every committed state all references resolve with the right type:
\* every CAPTURE and every VOID names an existing AUTH_HOLD, every REFUND names an
\* existing CAPTURE, every AUTH_HOLD has a null reference, and each child row has
\* the account_id and the amount_cents of its parent.
C34_ReferencesResolve ==
    \A i \in Rows :
        IF ledger[i].type = TransactionTypeAuthHold
        THEN ledger[i].reference_id = NoRef
        ELSE /\ ledger[i].reference_id \in Rows
             /\ LET parent == ledger[ledger[i].reference_id]
                IN  /\ parent.type = ReferencedType(ledger[i].type)
                    /\ parent.account_id = ledger[i].account_id
                    /\ parent.amount_cents = ledger[i].amount_cents

\* a refund of a capture of an authorization of 2: three rows in a chain
C34_Witness ==
    \E h, c, f \in Rows :
        /\ ledger[h].type = TransactionTypeAuthHold /\ ledger[h].amount_cents = MaxAmount
        /\ ledger[c].type = TransactionTypeCapture /\ ledger[c].reference_id = h
        /\ ledger[f].type = TransactionTypeRefund /\ ledger[f].reference_id = c

-----------------------------------------------------------------------------
(* The uniqueness-conflict branches (Spec)                                  *)

ConflictCodes == {ErrCodeAlreadyCaptured, ErrCodeAlreadyVoided}

\* no Capture and no Void has been answered from a uniqueness-conflict branch
NoConflictAnswer ==
    \A r \in Requests :
        req[r].kind \in {"capture", "void"} /\ Answered(r) =>
            req[r].resp.code \notin ConflictCodes

\* request r is answered in this step, after it found its authorization COMPLETED
LosesTo(r) ==
    /\ req[r].kind \in {"capture", "void"}
    /\ req[r].pc = "write"
    /\ req'[r].pc # "write"
    /\ ~req'[r].faulted
    /\ ledger[req[r].target].status = TransactionStatusCompleted

-----------------------------------------------------------------------------
(* Lock order and progress (SpecFair)                                       *)

\* the service call of request r is between BeginTx and its return
InFlight(r) == req[r].pc \in {"lock", "write", "adjust", "commit"}

\* while a call is in flight, some call in flight can run its next statement
NoDeadlock ==
    (\E r \in Requests : InFlight(r)) => \E r \in Requests : InFlight(r) /\ ENABLED StepOf(r)

\* a transaction that takes the lock of a ledger row holds no account lock yet
RowLockBeforeAccountLock ==
    \A r \in Requests :
        tx'[r].rowLock # UnknownId /\ tx[r].rowLock = UnknownId =>
            tx[r].acctLock = NoAccount

\* C36: no combination of concurrent Authorize, Capture, Void and Refund
\* requests deadlocks: every transaction takes its ledger-row lock (if any) before
\* the account-row lock and never the reverse, so under fair scheduling every
\* request eventually commits or returns an error.
C36_NoDeadlock ==
    /\ []NoDeadlock
    /\ [][RowLockBeforeAccountLock]_vars
    /\ \A r \in Requests : InFlight(r) ~> (req[r].pc = "done" /\ req[r].resp # NoResp)

\* a capture that holds the lock of its AUTH_HOLD row waits for the account's
\* row, which an authorization on the same account holds
C36_Witness ==
    \E r, q \in Requests :
        /\ req[r].kind = "capture" /\ req[r].pc = "adjust"
        /\ tx[r].rowLock = req[r].target
        /\ req[q].kind = "authorize" /\ InFlight(q)
        /\ tx[q].acctLock = tx[r].row.account_id
        /\ ~ENABLED AdjustStep(r)

-----------------------------------------------------------------------------
(* Void and expiry (Spec)                                                   *)

\* the ACTIVE holds of account a whose expires_at is in the past
ExpiredActiveHolds(a) == {h \in ActiveHolds(a) : ledger[h].expires_at < now}

\* an expired hold that nobody has voided still counts against the available balance
ExpiredHoldsStayDeducted ==
    \A a \in AccountIds :
        accounts[a].available_balance_cents
            <= accounts[a].balance_cents - Sum(AmountOfRow, ExpiredActiveHolds(a))

\* request r is a void of an ACTIVE authorization whose expires_at is in the past
VoidsExpiredHold(r) ==
    /\ req[r].kind = "void"
    /\ req[r].target \in Rows
    /\ ledger[req[r].target].status = TransactionStatusActive
    /\ ledger[req[r].target].expires_at < now

\* what a step of such a void, untouched by a database failure, does
VoidOfExpiredStep(r) ==
    LET h == req[r].target
        a == ledger[h].account_id
    IN  /\ req[r].pc = "write" /\ req'[r].pc # "write" =>
               req'[r].pc = "adjust" /\ req'[r].resp = NoResp
        /\ req[r].pc = "commit" /\ req'[r].pc # "commit" =>
               /\ req'[r].resp.status = 200
               /\ ledger'[h].status = TransactionStatusCompleted
               /\ accounts'[a].available_balance_cents =
                      accounts[a].available_balance_cents + ledger[h].amount_cents
               /\ accounts'[a].balance_cents = accounts[a].balance_cents

\* C37: Void does not check expiry: a Void of an ACTIVE authorization whose
\* expires_at is in the past succeeds, marks the hold COMPLETED and restores the
\* available balance by the hold amount; until such a Void, an expired ACTIVE
\* hold keeps its amount deducted from the available balance.
C37_VoidIgnoresExpiry ==
    /\ []ExpiredHoldsStayDeducted
    /\ [][\A r \in Requests :
             VoidsExpiredHold(r) /\ ~req'[r].faulted => VoidOfExpiredStep(r)]_vars

\* a hold was voided after its expiry and the account is whole again, while
\* another expired hold, not voided, is still deducted
C37_Witness ==
    \E r \in Requests, h, g \in Rows :
        /\ req[r].kind = "void" /\ req[r].target = h
        /\ req[r].resp # NoResp /\ req[r].resp.status = 200
        /\ ledger[r] # NoRow
        /\ ledger[h].expires_at < now
        /\ ledger[h].status = TransactionStatusCompleted
        /\ g \in ExpiredActiveHolds(ledger[g].account_id)
        /\ accounts[ledger[g].account_id].available_balance_cents
               < accounts[ledger[g].account_id].balance_cents

-----------------------------------------------------------------------------
(* C38: the replay looks at the key and the path, never at the body *)

\* the JSON body of a request
BodyOf(rec) == <<rec.card, rec.cvv, rec.amount, rec.target>>

\* every body a client can post to the route of a kind
BodiesOf(kind) ==
    {in \in AuthorizeInputs(AuthorizeCards, AuthorizeCVVs) \cup CaptureInputs
             \cup VoidInputs \cup RefundInputs : in.kind = kind}

\* what the middleware chain returns for a body posted with a key
Posted(in, key) ==
    Idempotency([NewRequest EXCEPT !.kind = in.kind, !.card = in.card, !.cvv = in.cvv,
                                   !.amount = in.amount, !.target = in.target,
                                   !.key = key])

\* with a record stored for (key, path), a POST of any body whose lookup
\* succeeds is answered with the record and does not reach the handler
ReplayIgnoresBody ==
    \A key \in Keys, kind \in Kinds :
        idem[<<key, PathOf(kind)>>] # NoRecord =>
            \A in \in BodiesOf(kind) : \A rec \in Posted(in, key) :
                ~rec.faulted =>
                    /\ rec.resp = Replayed(idem[<<key, PathOf(kind)>>])
                    /\ rec.replayed /\ ~rec.invoked /\ rec.pc = "done"

\* the arrival of a replayed request changes no row, no balance and no record
ReplayedBodyHasNoEffect ==
    \A q \in Requests :
        (Arrives(q) /\ req'[q].replayed) =>
            /\ ledger' = ledger /\ accounts' = accounts
            /\ tx' = tx /\ idem' = idem
            /\ req'[q].pc = "done"

\* C38: once a 2xx response is stored for (key, path), a later POST with the
\* same key and path and a different body returns the stored response, the
\* handler is not invoked, and the new body changes neither ledger nor balances.
C38_ReplayIgnoresBody == []ReplayIgnoresBody /\ [][ReplayedBodyHasNoEffect]_vars

\* a stored 200 replayed to a request that posted another body under the key
C38_Witness ==
    \E r, q \in Requests :
        /\ r # q
        /\ req[r].invoked /\ req[r].pc = "done" /\ req[r].resp.status = 200
        /\ req[q].key = req[r].key /\ req[q].kind = req[r].kind
        /\ BodyOf(req[q]) # BodyOf(req[r])
        /\ req[q].replayed /\ ~req[q].invoked
        /\ req[q].resp = req[r].resp
        /\ req[q].resp = Replayed(RecordOf(req[q]))

-----------------------------------------------------------------------------
(* C39: a cache hit is answered before the failure injection runs *)

\* every stored record holds a 2xx status
StoredAreSuccesses ==
    \A k \in DOMAIN idem :
        idem[k] # NoRecord => shouldCacheResponse(idem[k].response_status)

\* a keyed request that finds a record, at any failure rate
HitsCache(q) ==
    /\ Arrives(q)
    /\ RecordOf(req'[q]) # NoRecord
    /\ ~req'[q].faulted

\* the hit is answered with the stored 2xx, never with the injected 500
HitEscapesChaos ==
    \A q \in Requests :
        HitsCache(q) =>
            /\ req'[q].resp = Replayed(RecordOf(req'[q]))
            /\ shouldCacheResponse(req'[q].resp.status)
            /\ req'[q].resp # ChaosResponse
            /\ ~Injected(req'[q])

\* C39: once a 2xx response is stored for (key, path), every later request with
\* that key and path whose lookup succeeds returns the stored 2xx and never an
\* injected 500, whatever the configured failure rate.
C39_CacheHitEscapesChaos == []StoredAreSuccesses /\ [][HitEscapesChaos]_vars

\* with every request failing by injection, a retry under the key of a stored
\* 200 is replayed, and the retry whose lookup failed got the injected 500
C39_Witness ==
    \E r, q, p \in Requests :
        /\ r < q /\ q < p
        /\ cfg.FailureRate = precision
        /\ req[r].invoked /\ req[r].resp.status = 200 /\ req[r].pc = "done"
        /\ req[q].key = req[r].key /\ req[q].kind = req[r].kind
        /\ req[q].replayed /\ req[q].resp = req[r].resp
        /\ req[p].key = req[r].key /\ req[p].kind = req[r].kind
        /\ req[p].faulted /\ Injected(req[p])

-----------------------------------------------------------------------------
(* C40: the range of the injected latency *)

\* the next request can sleep v milliseconds
CanSleep(v) ==
    ENABLED (\E r \in Requests, in \in ReadInputs :
                 Arrive(r, in, NoKey) /\ req'[r].latency = v)

\* a request is still to come
Pending == \E r \in Requests : req[r].pc = "new"

\* every latency slept so far is within the configured bounds
SleptWithinBounds ==
    \A r \in Requests :
        req[r].pc # "new" =>
            \/ req[r].latency \in cfg.MinLatencyMS..cfg.MaxLatencyMS
            \/ cfg.MaxLatencyMS <= 0 /\ req[r].latency = 0

\* C40: for 0 <= min_latency_ms < max_latency_ms the injected latency can take
\* every integer of the closed interval [min_latency_ms, max_latency_ms] and no
\* value outside it; for min_latency_ms = max_latency_ms > 0 it is exactly
\* that value.
C40_LatencyCoversClosedInterval ==
    /\ SleptWithinBounds
    /\ (Pending /\ 0 <= cfg.MinLatencyMS /\ cfg.MinLatencyMS < cfg.MaxLatencyMS) =>
           \A v \in cfg.MinLatencyMS..cfg.MaxLatencyMS : CanSleep(v)
    /\ (Pending /\ cfg.MinLatencyMS = cfg.MaxLatencyMS /\ cfg.MaxLatencyMS > 0) =>
           \A v \in 0..MaxLatency : CanSleep(v) <=> v = cfg.MinLatencyMS

\* what the code does: the latency covers min_latency_ms up to, and not
\* including, max_latency_ms
LatencyCoversHalfOpenInterval ==
    /\ SleptWithinBounds
    /\ (Pending /\ 0 <= cfg.MinLatencyMS /\ cfg.MinLatencyMS < cfg.MaxLatencyMS) =>
           \A v \in 0..MaxLatency :
               CanSleep(v) <=> (cfg.MinLatencyMS <= v /\ v < cfg.MaxLatencyMS)
    /\ (Pending /\ cfg.MinLatencyMS = cfg.MaxLatencyMS /\ cfg.MaxLatencyMS > 0) =>
           \A v \in 0..MaxLatency : CanSleep(v) <=> v = cfg.MinLatencyMS

=============================================================================
